---- MODULE Spec2Model ----
(***************************************************************************)
(* A model of aimakerspace: the EnhancedVectorDatabase (two co-indexed     *)
(* mappings key -> vector and key -> metadata, linear-scan search with     *)
(* four metrics and a metadata filter, JSON persistence) and the two text  *)
(* splitters (PDFTextSplitter, YouTubeTextSplitter).                       *)
(*                                                                         *)
(* Representation.                                                         *)
(*  - A Python dict keeps insertion order: self.vectors is the pair        *)
(*    (order, vectors), order being the sequence of its keys.              *)
(*  - Metadata dicts are objects: self.metadata maps a key to a reference  *)
(*    and heap maps a reference to the dict's content, so that one dict    *)
(*    stored under two keys is one object.  Objects the store no longer    *)
(*    references are dropped and references are renumbered (Normalize).    *)
(*  - A score is kept exactly, as the signed square of the float the code  *)
(*    computes (see Exact); NaN is a separate value that compares false.   *)
(***************************************************************************)
EXTENDS Integers, Sequences, FiniteSets, TLC

VARIABLES
    order,        \* keys of self.vectors in dict (insertion) order
    vectors,      \* self.vectors: key -> vector
    metadata,     \* self.metadata: key -> reference of a dict object
    heap,         \* reference -> content of the dict object
    file,         \* the JSON file save_to_file writes (NoFile before the first save)
    saved,        \* history: the store's content when the file was written
    last,         \* the last call: its name, arguments, result or exception
    pdf_splitter, \* the PDFTextSplitter object, once constructed
    yt_splitter,  \* the YouTubeTextSplitter object, once constructed
    calls,        \* history: the number of calls made, where a specification counts them
    yt_loader,    \* the YouTubeTranscriptLoader object: video_id and video_info
    pdf_loader,   \* the PDFFileLoader object, once constructed
    listing,      \* the files of the file system, in the order os.walk yields them
    pending       \* the coroutines of abuild_from_list suspended at its await

vars == <<order, vectors, metadata, heap, file, saved, last, pdf_splitter, yt_splitter, calls,
          yt_loader, pdf_loader, listing, pending>>

storeVars == <<order, vectors, metadata, heap>>
splitVars == <<pdf_splitter, yt_splitter>>
loaderVars == <<yt_loader, pdf_loader, listing>>

(***************************************************************************)
(* Bounds of the model.                                                    *)
(***************************************************************************)
NumKeys == 2
MaxTexts == 2
MaxCalls == 4
MaxPending == 1

KeyNames == <<"a", "b", "c", "d", "e">>
Keys == {KeyNames[i] : i \in 1..NumKeys}
KeyIdx(k) == CHOOSE i \in 1..Len(KeyNames) : KeyNames[i] = k

(***************************************************************************)
(* Values.                                                                 *)
(***************************************************************************)
EmptyMap == [f \in {} |-> 0]
NoRef == 0

\* dict.update(new) / {**old, **new}: the pairs of new win
Merge(old, new) ==
    [f \in DOMAIN old \cup DOMAIN new |-> IF f \in DOMAIN new THEN new[f] ELSE old[f]]

\* the vectors and metadata dicts a store is made of
Store == [order |-> order, vectors |-> vectors, metadata |-> metadata, heap |-> heap]

EmptyStore == [order |-> <<>>, vectors |-> EmptyMap, metadata |-> EmptyMap, heap |-> EmptyMap]

\* a new dict object with content m: the heap with it, and its reference
MaxOf(S) == IF \A x \in S : x <= 0 THEN 0 ELSE CHOOSE x \in S : \A y \in S : y <= x

FreshRef(st) == MaxOf(DOMAIN st.heap) + 1

Alloc(st, r, m) ==
    [st EXCEPT !.heap = [x \in DOMAIN st.heap \cup {r} |-> IF x = r THEN m ELSE st.heap[x]]]

\* The dict objects the caller of abuild_from_chunks holds, the metadata of
\* the chunks it passed: they live under the references below NoRef.
CallerRefs(st) == {r \in DOMAIN st.heap : r < NoRef}

\* Reference counting and renaming: only the objects self.metadata reaches and
\* the objects the caller holds are kept; the former are named 1, 2, ... by the
\* first key (in KeyNames order) that holds each, the latter keep their names.
Rep(md, k) ==
    CHOOSE r \in DOMAIN md :
        /\ md[r] = md[k]
        /\ \A s \in DOMAIN md : md[s] = md[k] => KeyIdx(r) <= KeyIdx(s)

Rank(md, k) ==
    Cardinality({r \in DOMAIN md : Rep(md, r) = r /\ KeyIdx(r) <= KeyIdx(Rep(md, k))})

Normalize(st) ==
    LET own == [k \in {k \in DOMAIN st.metadata : st.metadata[k] > NoRef} |-> st.metadata[k]]
        md == [k \in DOMAIN st.metadata |->
                  IF k \in DOMAIN own THEN Rank(own, k) ELSE st.metadata[k]]
        hp == [r \in {md[k] : k \in DOMAIN md} \cup CallerRefs(st) |->
                  IF r < NoRef THEN st.heap[r]
                  ELSE st.heap[st.metadata[CHOOSE k \in DOMAIN md : md[k] = r]]]
    IN  [st EXCEPT !.metadata = md, !.heap = hp]

\* self.metadata.get(key, {}) by value
MetaOf(st, key) ==
    IF key \in DOMAIN st.metadata THEN st.heap[st.metadata[key]] ELSE EmptyMap

\* A faulty insert, for C9: the vectors mapping is rebuilt with the inserted key
\* alone, so every other key is lost.
insert_dropping(st, key, vector, ref) ==
    LET truthy == ref # NoRef /\ DOMAIN st.heap[ref] # {}
        md == IF truthy
              THEN [k \in DOMAIN st.metadata \cup {key} |->
                       IF k = key THEN ref ELSE st.metadata[k]]
              ELSE st.metadata
    IN  [st EXCEPT !.order = <<key>>, !.vectors = [k \in {key} |-> vector], !.metadata = md]

(***************************************************************************)
(* EnhancedVectorDatabase.insert: ref is NoRef for metadata=None, else the *)
(* reference of the dict passed.                                           *)
(***************************************************************************)
insert(st, key, vector, ref) ==
    LET vs == [k \in DOMAIN st.vectors \cup {key} |->
                  IF k = key THEN vector ELSE st.vectors[k]]
        ord == IF key \in DOMAIN st.vectors THEN st.order ELSE Append(st.order, key)
        truthy == ref # NoRef /\ DOMAIN st.heap[ref] # {}
        md == IF truthy
              THEN [k \in DOMAIN st.metadata \cup {key} |->
                       IF k = key THEN ref ELSE st.metadata[k]]
              ELSE st.metadata
    IN  [st EXCEPT !.order = ord, !.vectors = vs, !.metadata = md]

\* EnhancedVectorDatabase.retrieve_from_key: (vector or None, metadata or {})
retrieve_from_key(st, key) ==
    [none |-> key \notin DOMAIN st.vectors,
     vector |-> IF key \in DOMAIN st.vectors THEN st.vectors[key] ELSE <<>>,
     metadata |-> MetaOf(st, key)]

\* A faulty update_metadata, for C5: the metadata is replaced, not merged.
update_metadata_replacing(st, key, new) ==
    IF key \in DOMAIN st.vectors
    THEN LET r == FreshRef(st)
             md == [k \in DOMAIN st.metadata \cup {key} |->
                       IF k = key THEN r ELSE st.metadata[k]]
         IN  [st |-> [Alloc(st, r, new) EXCEPT !.metadata = md], exc |-> "none"]
    ELSE [st |-> st, exc |-> "KeyError"]

\* A faulty update_metadata, for C18: the key is not looked up in
\* self.vectors, and the defaultdict makes an entry for a key the store has not.
update_metadata_unchecked(st, key, new) ==
    LET has == key \in DOMAIN st.metadata
        r == IF has THEN st.metadata[key] ELSE FreshRef(st)
        cur == IF has THEN st.heap[r] ELSE EmptyMap
        md == [k \in DOMAIN st.metadata \cup {key} |->
                  IF k = key THEN r ELSE st.metadata[k]]
    IN  [st |-> [Alloc(st, r, Merge(cur, new)) EXCEPT !.metadata = md], exc |-> "none"]

\* EnhancedVectorDatabase.update_metadata: self.metadata is a defaultdict(dict),
\* so a key of self.vectors without metadata gets a new empty dict first.
update_metadata(st, key, new) ==
    IF key \in DOMAIN st.vectors
    THEN LET has == key \in DOMAIN st.metadata
             r == IF has THEN st.metadata[key] ELSE FreshRef(st)
             cur == IF has THEN st.heap[r] ELSE EmptyMap
             md == [k \in DOMAIN st.metadata \cup {key} |->
                       IF k = key THEN r ELSE st.metadata[k]]
         IN  [st |-> [Alloc(st, r, Merge(cur, new)) EXCEPT !.metadata = md], exc |-> "none"]
    ELSE [st |-> st, exc |-> "KeyError"]

(***************************************************************************)
(* The four metrics.  A score is the float64 the code computes.  It is     *)
(* kept as the real number it approximates, by that number's signed square *)
(* num/den (sign(x) * x^2, which orders as x does), and the number ulps of *)
(* floats by which the computed float lies above the float nearest to that *)
(* real number: the Euclidean distance sqrt(2) is [num |-> 2, den |-> 1,   *)
(* ulps |-> 0], the dot product -3 is [num |-> -9, den |-> 1, ulps |-> 0], *)
(* and the cosine of <<1, 1>> with itself, 0.9999999999999998, two floats  *)
(* below 1.0, is [num |-> 4, den |-> 4, ulps |-> -2].  A division 0/0 of   *)
(* numpy floats is NaN, which compares false with everything.              *)
(***************************************************************************)
RECURSIVE SumSeq(_)
SumSeq(s) == IF s = <<>> THEN 0 ELSE Head(s) + SumSeq(Tail(s))

Abs(x) == IF x < 0 THEN -x ELSE x
Sgn(x) == IF x < 0 THEN -1 ELSE IF x > 0 THEN 1 ELSE 0

Dot(a, b) == SumSeq([i \in 1..Len(a) |-> a[i] * b[i]])
Sub(a, b) == [i \in 1..Len(a) |-> a[i] - b[i]]

NaN == [nan |-> TRUE, num |-> 0, den |-> 1, ulps |-> 0]
Rounded(n, d, u) == [nan |-> FALSE, num |-> n, den |-> d, ulps |-> u]
Exact(n, d) == Rounded(n, d, 0)

\* The rounding of dot / (sqrt(na) * sqrt(nb)) in float64 arithmetic, where
\* each of the two square roots, the product and the quotient is rounded to
\* the nearest float: the triples <<dot, na, nb>>, dot > 0 and na <= nb <=
\* MaxNorm2, whose result lies two floats below, one below, one above and
\* two above the float nearest to the real quotient.  The result of every
\* other such triple is that nearest float.
MaxNorm2 == 18

TwoBelow ==
    {<<1, 2, 2>>, <<2, 2, 2>>, <<1, 2, 8>>, <<2, 2, 8>>, <<4, 2, 8>>, <<5, 2, 15>>,
     <<1, 5, 5>>, <<2, 5, 5>>, <<4, 5, 5>>, <<5, 5, 5>>, <<7, 5, 10>>, <<1, 8, 8>>,
     <<2, 8, 8>>, <<4, 8, 8>>, <<7, 8, 8>>, <<8, 8, 8>>, <<5, 8, 15>>, <<9, 8, 15>>,
     <<10, 8, 15>>, <<1, 10, 10>>, <<2, 10, 10>>, <<4, 10, 10>>, <<5, 10, 10>>, <<8, 10, 10>>,
     <<9, 10, 10>>, <<10, 10, 10>>}

OneBelow ==
    {<<1, 1, 2>>, <<1, 1, 7>>, <<2, 1, 7>>, <<1, 1, 8>>, <<2, 1, 8>>, <<1, 1, 15>>,
     <<2, 1, 15>>, <<1, 2, 3>>, <<2, 2, 3>>, <<1, 2, 4>>, <<2, 2, 4>>, <<1, 2, 7>>,
     <<2, 2, 7>>, <<3, 2, 7>>, <<3, 2, 8>>, <<1, 2, 9>>, <<2, 2, 9>>, <<3, 2, 9>>, <<4, 2, 9>>,
     <<1, 2, 11>>, <<2, 2, 11>>, <<4, 2, 11>>, <<1, 2, 12>>, <<2, 2, 12>>, <<4, 2, 12>>,
     <<1, 2, 13>>, <<2, 2, 13>>, <<3, 2, 13>>, <<4, 2, 13>>, <<5, 2, 13>>, <<1, 2, 14>>,
     <<2, 2, 14>>, <<4, 2, 14>>, <<1, 2, 15>>, <<2, 2, 15>>, <<4, 2, 15>>, <<1, 2, 16>>,
     <<2, 2, 16>>, <<4, 2, 16>>, <<5, 2, 16>>, <<1, 2, 17>>, <<2, 2, 17>>, <<4, 2, 17>>,
     <<5, 2, 17>>, <<1, 3, 5>>, <<2, 3, 5>>, <<1, 3, 8>>, <<2, 3, 8>>, <<4, 3, 8>>,
     <<1, 4, 7>>, <<2, 4, 7>>, <<4, 4, 7>>, <<1, 4, 8>>, <<2, 4, 8>>, <<4, 4, 8>>, <<5, 4, 8>>,
     <<5, 4, 10>>, <<1, 4, 15>>, <<2, 4, 15>>, <<4, 4, 15>>, <<3, 5, 5>>, <<1, 5, 7>>,
     <<2, 5, 7>>, <<3, 5, 7>>, <<4, 5, 7>>, <<5, 5, 7>>, <<5, 5, 8>>, <<1, 5, 10>>,
     <<2, 5, 10>>, <<3, 5, 10>>, <<4, 5, 10>>, <<5, 5, 10>>, <<6, 5, 10>>, <<1, 5, 12>>,
     <<2, 5, 12>>, <<4, 5, 12>>, <<3, 5, 14>>, <<6, 5, 14>>, <<1, 5, 15>>, <<2, 5, 15>>,
     <<3, 5, 15>>, <<4, 5, 15>>, <<6, 5, 15>>, <<7, 5, 15>>, <<8, 5, 15>>, <<5, 6, 7>>,
     <<3, 7, 7>>, <<5, 7, 7>>, <<6, 7, 7>>, <<7, 7, 7>>, <<1, 7, 8>>, <<2, 7, 8>>, <<3, 7, 8>>,
     <<4, 7, 8>>, <<6, 7, 8>>, <<7, 7, 8>>, <<1, 7, 9>>, <<2, 7, 9>>, <<3, 7, 9>>, <<4, 7, 9>>,
     <<6, 7, 9>>, <<3, 7, 10>>, <<6, 7, 10>>, <<3, 7, 11>>, <<6, 7, 11>>, <<1, 7, 14>>,
     <<2, 7, 14>>, <<4, 7, 14>>, <<8, 7, 14>>, <<1, 7, 15>>, <<2, 7, 15>>, <<3, 7, 15>>,
     <<4, 7, 15>>, <<5, 7, 15>>, <<6, 7, 15>>, <<8, 7, 15>>, <<9, 7, 15>>, <<10, 7, 15>>,
     <<1, 7, 16>>, <<2, 7, 16>>, <<4, 7, 16>>, <<7, 7, 16>>, <<8, 7, 16>>, <<1, 7, 17>>,
     <<2, 7, 17>>, <<4, 7, 17>>, <<5, 7, 17>>, <<7, 7, 17>>, <<8, 7, 17>>, <<9, 7, 17>>,
     <<10, 7, 17>>, <<3, 8, 8>>, <<5, 8, 8>>, <<6, 8, 8>>, <<1, 8, 9>>, <<2, 8, 9>>,
     <<3, 8, 9>>, <<4, 8, 9>>, <<5, 8, 9>>, <<6, 8, 9>>, <<7, 8, 9>>, <<8, 8, 9>>,
     <<1, 8, 11>>, <<2, 8, 11>>, <<4, 8, 11>>, <<7, 8, 11>>, <<8, 8, 11>>, <<9, 8, 11>>,
     <<1, 8, 12>>, <<2, 8, 12>>, <<4, 8, 12>>, <<5, 8, 12>>, <<8, 8, 12>>, <<9, 8, 12>>,
     <<1, 8, 13>>, <<2, 8, 13>>, <<3, 8, 13>>, <<4, 8, 13>>, <<5, 8, 13>>, <<6, 8, 13>>,
     <<7, 8, 13>>, <<8, 8, 13>>, <<9, 8, 13>>, <<10, 8, 13>>, <<1, 8, 14>>, <<2, 8, 14>>,
     <<4, 8, 14>>, <<7, 8, 14>>, <<8, 8, 14>>, <<1, 8, 15>>, <<2, 8, 15>>, <<4, 8, 15>>,
     <<7, 8, 15>>, <<8, 8, 15>>, <<1, 8, 16>>, <<2, 8, 16>>, <<4, 8, 16>>, <<5, 8, 16>>,
     <<8, 8, 16>>, <<10, 8, 16>>, <<1, 8, 17>>, <<2, 8, 17>>, <<4, 8, 17>>, <<5, 8, 17>>,
     <<7, 8, 17>>, <<8, 8, 17>>, <<9, 8, 17>>, <<10, 8, 17>>, <<1, 9, 15>>, <<2, 9, 15>>,
     <<3, 9, 15>>, <<4, 9, 15>>, <<5, 9, 15>>, <<6, 9, 15>>, <<8, 9, 15>>, <<9, 9, 15>>,
     <<10, 9, 15>>, <<11, 9, 15>>, <<3, 10, 10>>, <<6, 10, 10>>, <<7, 10, 10>>, <<9, 10, 12>>,
     <<1, 10, 15>>, <<2, 10, 15>>, <<3, 10, 15>>, <<4, 10, 15>>, <<5, 10, 15>>, <<6, 10, 15>>,
     <<8, 10, 15>>, <<9, 10, 15>>, <<10, 10, 15>>, <<11, 10, 15>>, <<12, 10, 15>>,
     <<5, 10, 16>>, <<9, 10, 16>>, <<10, 10, 16>>, <<1, 10, 17>>, <<2, 10, 17>>, <<3, 10, 17>>,
     <<4, 10, 17>>, <<6, 10, 17>>, <<7, 10, 17>>, <<8, 10, 17>>, <<12, 10, 17>>,
     <<13, 10, 17>>, <<5, 11, 14>>, <<10, 11, 14>>, <<3, 11, 15>>, <<6, 11, 15>>,
     <<12, 11, 15>>, <<3, 11, 17>>, <<6, 11, 17>>, <<12, 11, 17>>, <<13, 11, 17>>,
     <<1, 15, 15>>, <<2, 15, 15>>, <<3, 15, 15>>, <<4, 15, 15>>, <<6, 15, 15>>, <<7, 15, 15>>,
     <<8, 15, 15>>, <<12, 15, 15>>, <<13, 15, 15>>, <<14, 15, 15>>, <<15, 15, 15>>,
     <<1, 15, 16>>, <<2, 15, 16>>, <<4, 15, 16>>, <<8, 15, 16>>, <<15, 15, 16>>, <<1, 15, 17>>,
     <<2, 15, 17>>, <<4, 15, 17>>, <<5, 15, 17>>, <<8, 15, 17>>, <<10, 15, 17>>,
     <<13, 15, 17>>, <<15, 15, 17>>}

OneAbove ==
    {<<1, 1, 3>>, <<1, 1, 6>>, <<2, 1, 6>>, <<1, 1, 12>>, <<2, 1, 12>>, <<3, 1, 12>>,
     <<1, 1, 18>>, <<2, 1, 18>>, <<4, 1, 18>>, <<1, 2, 6>>, <<2, 2, 6>>, <<3, 2, 6>>,
     <<1, 3, 3>>, <<2, 3, 3>>, <<3, 3, 3>>, <<1, 3, 4>>, <<2, 3, 4>>, <<3, 3, 4>>, <<1, 3, 6>>,
     <<2, 3, 6>>, <<4, 3, 6>>, <<1, 3, 12>>, <<2, 3, 12>>, <<3, 3, 12>>, <<4, 3, 12>>,
     <<5, 3, 12>>, <<6, 3, 12>>, <<1, 3, 13>>, <<2, 3, 13>>, <<3, 3, 13>>, <<4, 3, 13>>,
     <<5, 3, 13>>, <<6, 3, 13>>, <<1, 3, 14>>, <<2, 3, 14>>, <<3, 3, 14>>, <<4, 3, 14>>,
     <<6, 3, 14>>, <<3, 3, 15>>, <<5, 3, 15>>, <<6, 3, 15>>, <<1, 3, 16>>, <<2, 3, 16>>,
     <<3, 3, 16>>, <<4, 3, 16>>, <<5, 3, 16>>, <<6, 3, 16>>, <<1, 3, 17>>, <<2, 3, 17>>,
     <<3, 3, 17>>, <<4, 3, 17>>, <<6, 3, 17>>, <<7, 3, 17>>, <<3, 3, 18>>, <<5, 3, 18>>,
     <<6, 3, 18>>, <<7, 3, 18>>, <<1, 4, 6>>, <<2, 4, 6>>, <<3, 4, 6>>, <<4, 4, 6>>,
     <<1, 4, 12>>, <<2, 4, 12>>, <<3, 4, 12>>, <<4, 4, 12>>, <<5, 4, 12>>, <<6, 4, 12>>,
     <<5, 4, 13>>, <<7, 4, 13>>, <<1, 4, 18>>, <<2, 4, 18>>, <<4, 4, 18>>, <<7, 4, 18>>,
     <<8, 4, 18>>, <<1, 5, 13>>, <<2, 5, 13>>, <<4, 5, 13>>, <<7, 5, 13>>, <<8, 5, 13>>,
     <<9, 5, 17>>, <<1, 6, 6>>, <<2, 6, 6>>, <<3, 6, 6>>, <<4, 6, 6>>, <<5, 6, 6>>,
     <<6, 6, 6>>, <<1, 6, 8>>, <<2, 6, 8>>, <<3, 6, 8>>, <<4, 6, 8>>, <<5, 6, 8>>, <<6, 6, 8>>,
     <<3, 6, 9>>, <<5, 6, 9>>, <<6, 6, 9>>, <<7, 6, 9>>, <<5, 6, 10>>, <<7, 6, 10>>,
     <<1, 6, 11>>, <<2, 6, 11>>, <<3, 6, 11>>, <<4, 6, 11>>, <<5, 6, 11>>, <<6, 6, 11>>,
     <<8, 6, 11>>, <<1, 6, 12>>, <<2, 6, 12>>, <<4, 6, 12>>, <<7, 6, 12>>, <<8, 6, 12>>,
     <<1, 6, 13>>, <<2, 6, 13>>, <<3, 6, 13>>, <<4, 6, 13>>, <<6, 6, 13>>, <<8, 6, 13>>,
     <<5, 6, 14>>, <<1, 6, 16>>, <<2, 6, 16>>, <<3, 6, 16>>, <<4, 6, 16>>, <<6, 6, 16>>,
     <<7, 6, 16>>, <<8, 6, 16>>, <<1, 6, 17>>, <<2, 6, 17>>, <<4, 6, 17>>, <<5, 6, 17>>,
     <<8, 6, 17>>, <<10, 6, 17>>, <<1, 6, 18>>, <<2, 6, 18>>, <<3, 6, 18>>, <<4, 6, 18>>,
     <<5, 6, 18>>, <<6, 6, 18>>, <<7, 6, 18>>, <<8, 6, 18>>, <<10, 6, 18>>, <<5, 7, 12>>,
     <<5, 7, 13>>, <<7, 7, 13>>, <<9, 7, 13>>, <<1, 9, 13>>, <<2, 9, 13>>, <<4, 9, 13>>,
     <<5, 9, 13>>, <<7, 9, 13>>, <<8, 9, 13>>, <<10, 9, 13>>, <<3, 9, 17>>, <<5, 9, 17>>,
     <<6, 9, 17>>, <<7, 9, 17>>, <<9, 9, 17>>, <<10, 9, 17>>, <<12, 9, 17>>, <<1, 10, 13>>,
     <<2, 10, 13>>, <<3, 10, 13>>, <<4, 10, 13>>, <<5, 10, 13>>, <<6, 10, 13>>, <<8, 10, 13>>,
     <<10, 10, 13>>, <<3, 10, 18>>, <<5, 10, 18>>, <<6, 10, 18>>, <<10, 10, 18>>,
     <<11, 10, 18>>, <<12, 10, 18>>, <<13, 10, 18>>, <<3, 11, 13>>, <<5, 11, 13>>,
     <<6, 11, 13>>, <<7, 11, 13>>, <<9, 11, 13>>, <<10, 11, 13>>, <<11, 11, 13>>,
     <<1, 11, 18>>, <<2, 11, 18>>, <<3, 11, 18>>, <<4, 11, 18>>, <<5, 11, 18>>, <<6, 11, 18>>,
     <<8, 11, 18>>, <<9, 11, 18>>, <<10, 11, 18>>, <<11, 11, 18>>, <<12, 11, 18>>,
     <<13, 11, 18>>, <<1, 12, 12>>, <<2, 12, 12>>, <<3, 12, 12>>, <<4, 12, 12>>, <<5, 12, 12>>,
     <<6, 12, 12>>, <<8, 12, 12>>, <<9, 12, 12>>, <<10, 12, 12>>, <<12, 12, 12>>,
     <<1, 12, 13>>, <<2, 12, 13>>, <<3, 12, 13>>, <<4, 12, 13>>, <<5, 12, 13>>, <<6, 12, 13>>,
     <<7, 12, 13>>, <<8, 12, 13>>, <<9, 12, 13>>, <<10, 12, 13>>, <<11, 12, 13>>,
     <<12, 12, 13>>, <<1, 12, 14>>, <<2, 12, 14>>, <<3, 12, 14>>, <<4, 12, 14>>, <<6, 12, 14>>,
     <<8, 12, 14>>, <<9, 12, 14>>, <<11, 12, 14>>, <<12, 12, 14>>, <<3, 12, 15>>,
     <<5, 12, 15>>, <<6, 12, 15>>, <<10, 12, 15>>, <<11, 12, 15>>, <<12, 12, 15>>,
     <<13, 12, 15>>, <<1, 12, 16>>, <<2, 12, 16>>, <<3, 12, 16>>, <<4, 12, 16>>, <<5, 12, 16>>,
     <<6, 12, 16>>, <<8, 12, 16>>, <<10, 12, 16>>, <<12, 12, 16>>, <<1, 12, 17>>,
     <<2, 12, 17>>, <<3, 12, 17>>, <<4, 12, 17>>, <<6, 12, 17>>, <<7, 12, 17>>, <<8, 12, 17>>,
     <<12, 12, 17>>, <<13, 12, 17>>, <<14, 12, 17>>, <<3, 12, 18>>, <<5, 12, 18>>,
     <<6, 12, 18>>, <<7, 12, 18>>, <<9, 12, 18>>, <<10, 12, 18>>, <<11, 12, 18>>,
     <<12, 12, 18>>, <<13, 12, 18>>, <<14, 12, 18>>, <<3, 13, 13>>, <<5, 13, 13>>,
     <<6, 13, 13>>, <<7, 13, 13>>, <<9, 13, 13>>, <<10, 13, 13>>, <<11, 13, 13>>,
     <<12, 13, 13>>, <<13, 13, 13>>, <<1, 13, 14>>, <<2, 13, 14>>, <<3, 13, 14>>,
     <<4, 13, 14>>, <<5, 13, 14>>, <<6, 13, 14>>, <<7, 13, 14>>, <<8, 13, 14>>, <<9, 13, 14>>,
     <<10, 13, 14>>, <<11, 13, 14>>, <<12, 13, 14>>, <<13, 13, 14>>, <<1, 13, 15>>,
     <<2, 13, 15>>, <<4, 13, 15>>, <<7, 13, 15>>, <<8, 13, 15>>, <<5, 13, 16>>, <<7, 13, 16>>,
     <<9, 13, 16>>, <<10, 13, 16>>, <<13, 13, 16>>, <<14, 13, 16>>, <<1, 13, 17>>,
     <<2, 13, 17>>, <<4, 13, 17>>, <<5, 13, 17>>, <<7, 13, 17>>, <<8, 13, 17>>, <<10, 13, 17>>,
     <<11, 13, 17>>, <<13, 13, 17>>, <<14, 13, 17>>, <<1, 13, 18>>, <<2, 13, 18>>,
     <<3, 13, 18>>, <<4, 13, 18>>, <<5, 13, 18>>, <<6, 13, 18>>, <<8, 13, 18>>, <<9, 13, 18>>,
     <<10, 13, 18>>, <<11, 13, 18>>, <<12, 13, 18>>, <<13, 13, 18>>, <<3, 14, 15>>,
     <<6, 14, 15>>, <<12, 14, 15>>, <<13, 14, 15>>, <<11, 14, 16>>, <<3, 14, 17>>,
     <<6, 14, 17>>, <<12, 14, 17>>, <<13, 14, 17>>, <<11, 14, 18>>, <<15, 14, 18>>,
     <<3, 15, 18>>, <<6, 15, 18>>, <<7, 15, 18>>, <<9, 15, 18>>, <<12, 15, 18>>,
     <<14, 15, 18>>, <<1, 16, 18>>, <<2, 16, 18>>, <<4, 16, 18>>, <<7, 16, 18>>, <<8, 16, 18>>,
     <<9, 16, 18>>, <<11, 16, 18>>, <<13, 16, 18>>, <<14, 16, 18>>, <<16, 16, 18>>,
     <<9, 17, 18>>, <<13, 17, 18>>, <<17, 17, 18>>, <<5, 18, 18>>, <<7, 18, 18>>,
     <<9, 18, 18>>, <<10, 18, 18>>, <<11, 18, 18>>, <<13, 18, 18>>, <<14, 18, 18>>,
     <<15, 18, 18>>, <<18, 18, 18>>}

TwoAbove ==
    {<<7, 6, 11>>, <<9, 6, 18>>, <<7, 11, 18>>, <<14, 11, 18>>, <<11, 12, 12>>, <<7, 13, 18>>,
     <<14, 13, 18>>, <<15, 13, 18>>, <<1, 18, 18>>, <<2, 18, 18>>, <<3, 18, 18>>,
     <<4, 18, 18>>, <<6, 18, 18>>, <<8, 18, 18>>, <<12, 18, 18>>, <<16, 18, 18>>,
     <<17, 18, 18>>}

\* The result for -dot is the negative of the one for dot, and na and nb
\* can be exchanged.  Norms above MaxNorm2 are not tabulated.
CosineRounding(dot, na, nb) ==
    LET t == <<Abs(dot), IF na <= nb THEN na ELSE nb, IF na <= nb THEN nb ELSE na>>
    IN  CASE na <= MaxNorm2 /\ nb <= MaxNorm2 ->
            Sgn(dot) * (CASE t \in TwoBelow -> -2
                          [] t \in OneBelow -> -1
                          [] t \in OneAbove -> 1
                          [] t \in TwoAbove -> 2
                          [] OTHER -> 0)

\* np.dot(a, b) / (np.linalg.norm(a) * np.linalg.norm(b)), and
\* np.linalg.norm(a) is sqrt(np.dot(a, a))
cosine_similarity(a, b) ==
    LET dot_product == Dot(a, b)
        norm_a2 == Dot(a, a)
        norm_b2 == Dot(b, b)
    IN  IF norm_a2 * norm_b2 = 0 THEN NaN
        ELSE Rounded(Sgn(dot_product) * dot_product * dot_product, norm_a2 * norm_b2,
                     CosineRounding(dot_product, norm_a2, norm_b2))

euclidean_distance(a, b) == Exact(Dot(Sub(a, b), Sub(a, b)), 1)

manhattan_distance(a, b) ==
    LET m == SumSeq([i \in 1..Len(a) |-> Abs(a[i] - b[i])])
    IN  Exact(m * m, 1)

dot_product_similarity(a, b) ==
    LET d == Dot(a, b) IN Exact(Sgn(d) * d * d, 1)

distance_metrics == {"cosine", "euclidean", "manhattan", "dot_product"}

distance_func(metric, a, b) ==
    CASE metric = "cosine" -> cosine_similarity(a, b)
      [] metric = "euclidean" -> euclidean_distance(a, b)
      [] metric = "manhattan" -> manhattan_distance(a, b)
      [] metric = "dot_product" -> dot_product_similarity(a, b)

\* x < y on floats: two floats that approximate different real numbers are
\* ordered as these are, the few floats around one real number by ulps
Less(x, y) ==
    /\ ~x.nan /\ ~y.nan
    /\ \/ x.num * y.den < y.num * x.den
       \/ x.num * y.den = y.num * x.den /\ x.ulps < y.ulps
\* x <= y and x >= y on floats
LessEq(x, y) ==
    /\ ~x.nan /\ ~y.nan
    /\ \/ x.num * y.den < y.num * x.den
       \/ x.num * y.den = y.num * x.den /\ x.ulps <= y.ulps

(***************************************************************************)
(* sorted(scores, key=lambda x: x[1], reverse=...): CPython's list.sort on *)
(* fewer than 64 elements is one run found by count_run, extended by       *)
(* binary insertion; reverse=True sorts the reversed list and reverses the *)
(* result.  Only the keys' < is used.  The order of keys that < orders     *)
(* totally is the same under every CPython; with NaN among them it is the  *)
(* order count_run and the insertions happen to produce, and count_run     *)
(* differs between the interpreters: up to CPython 3.12 it finds a run     *)
(* that is ascending or strictly descending, from CPython 3.13 on a        *)
(* descending run may hold equal keys.  The interpreter the program runs   *)
(* under is an input of the sort.                                          *)
(***************************************************************************)
Interpreters == {"3.11", "3.13"}

Reverse(s) == [i \in 1..Len(s) |-> s[Len(s) + 1 - i]]

\* reverse_slice: a with its positions lo..hi turned around
ReverseSlice(a, lo, hi) ==
    [i \in 1..Len(a) |-> IF lo <= i /\ i <= hi THEN a[lo + hi - i] ELSE a[i]]

\* whether the run breaks at position j (a[j] against a[j-1])
RunBreak(a, j, descending) ==
    IF descending THEN ~Less(a[j].score, a[j-1].score)
    ELSE Less(a[j].score, a[j-1].score)

count_run(a) ==
    LET descending == Less(a[2].score, a[1].score)
        n == CHOOSE i \in 2..Len(a) :
                 /\ i = Len(a) \/ RunBreak(a, i + 1, descending)
                 /\ \A j \in 3..i : ~RunBreak(a, j, descending)
    IN  [n |-> n, descending |-> descending]

RECURSIVE BinarySearch(_, _, _, _)
BinarySearch(a, pivot, l, r) ==
    IF l < r
    THEN LET p == l + ((r - l) \div 2)
         IN  IF Less(pivot.score, a[p].score)
             THEN BinarySearch(a, pivot, l, p)
             ELSE BinarySearch(a, pivot, p + 1, r)
    ELSE l

RECURSIVE binarysort(_, _)
binarysort(a, start) ==
    IF start > Len(a) THEN a
    ELSE LET pivot == a[start]
             l == BinarySearch(a, pivot, 1, start)
             b == [i \in 1..Len(a) |->
                      IF i < l \/ i > start THEN a[i]
                      ELSE IF i = l THEN pivot ELSE a[i - 1]]
         IN  binarysort(b, start + 1)

\* count_run of CPython 3.13.  The run of n elements found so far ends at
\* a[n].  AscendingEnd is the end of the ascending run that extends it.
AscendingEnd(a, n) ==
    CHOOSE m \in n..Len(a) :
        /\ m = Len(a) \/ Less(a[m + 1].score, a[m].score)
        /\ \A j \in (n + 1)..m : ~Less(a[j].score, a[j - 1].score)

\* REVERSE_LAST_NEQ: the last neq + 1 elements of the run, all equal, are
\* turned around
ReverseLastNeq(a, n, neq) == IF neq = 0 THEN a ELSE ReverseSlice(a, n - neq, n)

\* the loop over a descending run, whose runs of equal elements are turned
\* around on the way so that the reversal of the whole run restores them
RECURSIVE DescendingRun(_, _, _)
DescendingRun(a, n, neq) ==
    IF n >= Len(a) THEN [a |-> ReverseLastNeq(a, n, neq), n |-> n]
    ELSE IF Less(a[n + 1].score, a[n].score)
         THEN DescendingRun(ReverseLastNeq(a, n, neq), n + 1, 0)
         ELSE IF Less(a[n].score, a[n + 1].score)
              THEN [a |-> ReverseLastNeq(a, n, neq), n |-> n]
              ELSE DescendingRun(a, n + 1, neq + 1)

\* the list as count_run leaves it, and the length n of its first run
count_run_3_13(a) ==
    LET n == AscendingEnd(a, 1)
    IN  IF n = Len(a) THEN [a |-> a, n |-> n]
        ELSE IF n > 1 /\ Less(a[1].score, a[n].score) THEN [a |-> a, n |-> n]
        ELSE LET b == IF n > 1 THEN ReverseSlice(a, 1, n) ELSE a
                 d == DescendingRun(b, n + 1, 0)
                 c == ReverseSlice(d.a, 1, d.n)
             IN  [a |-> c, n |-> AscendingEnd(c, d.n)]

ListSort(a, interpreter) ==
    IF Len(a) < 2 THEN a
    ELSE IF interpreter = "3.13"
    THEN LET run == count_run_3_13(a)
         IN  binarysort(run.a, run.n + 1)
    ELSE LET run == count_run(a)
             b == IF run.descending THEN ReverseSlice(a, 1, run.n) ELSE a
         IN  binarysort(b, run.n + 1)

\* A faulty sorted, for C16: a descending sort made of the ascending sort,
\* reversed, which turns the equal keys around.
sorted_then_reversed(a, reverse, interpreter) ==
    IF reverse THEN Reverse(ListSort(a, interpreter)) ELSE ListSort(a, interpreter)

\* A faulty sorted, for C2: reverse is ignored.
sorted_ascending(a, reverse, interpreter) == ListSort(a, interpreter)

sorted(a, reverse, interpreter) ==
    IF reverse THEN Reverse(ListSort(Reverse(a), interpreter)) ELSE ListSort(a, interpreter)

\* s[:k]
SliceTo(s, k) ==
    LET n == IF k >= 0 THEN (IF k < Len(s) THEN k ELSE Len(s))
             ELSE (IF Len(s) + k > 0 THEN Len(s) + k ELSE 0)
    IN  SubSeq(s, 1, n)

Range(s) == {s[i] : i \in DOMAIN s}

(***************************************************************************)
(* _matches_filter.  A filter maps a metadata name to a filter value       *)
(* [shape, v]: shape "ops" (a dict of operators, v maps each operator to   *)
(* its operand), "list" (v the list) or "scalar" (v the value).  Operands  *)
(* are of the type of the document's value, so no comparison raises.       *)
(***************************************************************************)
\* A faulty operator test, for C4: $gte also rejects the bound itself.
OpsPass_strict(doc_value, ops) ==
    ~ \/ "$gte" \in DOMAIN ops /\ doc_value <= ops["$gte"]
      \/ "$lte" \in DOMAIN ops /\ doc_value > ops["$lte"]
      \/ "$gt" \in DOMAIN ops /\ doc_value <= ops["$gt"]
      \/ "$lt" \in DOMAIN ops /\ doc_value >= ops["$lt"]
      \/ "$in" \in DOMAIN ops /\ doc_value \notin Range(ops["$in"])
      \/ "$nin" \in DOMAIN ops /\ doc_value \in Range(ops["$nin"])

OpsPass(doc_value, ops) ==
    ~ \/ "$gte" \in DOMAIN ops /\ doc_value < ops["$gte"]
      \/ "$lte" \in DOMAIN ops /\ doc_value > ops["$lte"]
      \/ "$gt" \in DOMAIN ops /\ doc_value <= ops["$gt"]
      \/ "$lt" \in DOMAIN ops /\ doc_value >= ops["$lt"]
      \/ "$in" \in DOMAIN ops /\ doc_value \notin Range(ops["$in"])
      \/ "$nin" \in DOMAIN ops /\ doc_value \in Range(ops["$nin"])

ValuePass(doc_value, filter_value) ==
    CASE filter_value.shape = "ops" -> OpsPass(doc_value, filter_value.v)
      [] filter_value.shape = "list" -> doc_value \in Range(filter_value.v)
      [] OTHER -> doc_value = filter_value.v

\* A faulty _matches_filter, for C3: a filter key the document lacks is skipped.
matches_filter_lenient(st, key, metadata_filter) ==
    LET doc_metadata == MetaOf(st, key)
    IN  \A filter_key \in DOMAIN metadata_filter :
            filter_key \in DOMAIN doc_metadata
                => ValuePass(doc_metadata[filter_key], metadata_filter[filter_key])

matches_filter(st, key, metadata_filter) ==
    LET doc_metadata == MetaOf(st, key)
    IN  \A filter_key \in DOMAIN metadata_filter :
            /\ filter_key \in DOMAIN doc_metadata
            /\ ValuePass(doc_metadata[filter_key], metadata_filter[filter_key])

(***************************************************************************)
(* EnhancedVectorDatabase.search.  flt is [given, f]: given is FALSE for   *)
(* metadata_filter=None; an empty filter dict is falsy and filters         *)
(* nothing.  The result is [exc, results]; an entry of results is          *)
(* [key, score, metadata], its score dropped when return_scores is False.  *)
(***************************************************************************)
Scan(st, query_vector, metric, flt) ==
    LET filtering == flt.given /\ DOMAIN flt.f # {}
        kept == SelectSeq(st.order, LAMBDA key : ~filtering \/ matches_filter(st, key, flt.f))
    IN  [i \in 1..Len(kept) |->
            [key |-> kept[i],
             score |-> distance_func(metric, query_vector, st.vectors[kept[i]]),
             metadata |-> MetaOf(st, kept[i])]]

NoScore == [nan |-> FALSE, num |-> 0, den |-> 0, ulps |-> 0]

\* lines 80-103 of search, for a metric of distance_metrics
Ranked(st, query_vector, k, metric, flt, return_scores, interpreter) ==
    LET scores == Scan(st, query_vector, metric, flt)
        reverse_sort == metric \in {"cosine", "dot_product"}
        results == SliceTo(sorted(scores, reverse_sort, interpreter), k)
    IN  [exc |-> "none",
         results |-> IF return_scores THEN results
                     ELSE [i \in 1..Len(results) |->
                              [results[i] EXCEPT !.score = NoScore]]]

\* A faulty search, for C6: an unknown metric name falls back to the default.
search_unchecked(st, query_vector, k, metric, flt, return_scores, interpreter) ==
    Ranked(st, query_vector, k,
           IF metric \in distance_metrics THEN metric ELSE "cosine", flt, return_scores,
           interpreter)

search(st, query_vector, k, metric, flt, return_scores, interpreter) ==
    IF metric \notin distance_metrics
    THEN [exc |-> "ValueError", results |-> <<>>]
    ELSE Ranked(st, query_vector, k, metric, flt, return_scores, interpreter)

\* get_statistics: the sizes of the two mappings, the length of the first
\* vector (0 for an empty store) and the names of the metrics
get_statistics(st) ==
    [total_documents |-> Cardinality(DOMAIN st.vectors),
     total_metadata_entries |-> Cardinality(DOMAIN st.metadata),
     vector_dimension |-> IF st.order # <<>> THEN Len(st.vectors[st.order[1]]) ELSE 0,
     available_distance_metrics |-> <<"cosine", "euclidean", "manhattan", "dot_product">>]

(***************************************************************************)
(* Persistence.  The file is the JSON object save_to_file dumps: "vectors" *)
(* as the list of (key, list of numbers) pairs in dict order, "metadata"   *)
(* as the object key -> metadata object (by value: a file holds no         *)
(* references).                                                            *)
(*                                                                         *)
(* The metadata of a store that is saved holds Python values with their    *)
(* types, a value being the record of its type and its content:            *)
(*   None, a bool b, an int n, a float of the given repr, a str s,         *)
(*   a list or a tuple of items, a dict of entries under string names,     *)
(*   and a value of any other type (a Decimal, a numpy integer, a set)     *)
(*   with its type and its str().                                          *)
(* A JSON value of the file is null, true, false, a number in the form of  *)
(* an integer or of a float, a string, an array or an object.              *)
(***************************************************************************)
NoFile == [exists |-> FALSE, vectors |-> <<>>, metadata |-> EmptyMap]

tolist(vector) == [i \in 1..Len(vector) |-> vector[i]]

PyNone == [type |-> "NoneType"]
PyBool(b) == [type |-> "bool", b |-> b]
PyInt(n) == [type |-> "int", n |-> n]
PyFloat(repr) == [type |-> "float", repr |-> repr]
PyStr(s) == [type |-> "str", s |-> s]
PyList(items) == [type |-> "list", items |-> items]
PyTuple(items) == [type |-> "tuple", items |-> items]
PyDict(entries) == [type |-> "dict", entries |-> entries]
PyOther(type, str) == [type |-> type, str |-> str]

\* What json.dump(..., default=str) writes for a value: a list and a tuple
\* alike as an array of what it writes for the items, a dict as an object
\* of what it writes for its values, and a value of a type the encoder does
\* not know as the string default returns for it, str(value).
RECURSIVE json_dump(_)
json_dump(v) ==
    CASE v.type = "NoneType" -> [json |-> "null"]
      [] v.type = "bool" -> [json |-> IF v.b THEN "true" ELSE "false"]
      [] v.type = "int" -> [json |-> "number", int |-> v.n]
      [] v.type = "float" -> [json |-> "number", float |-> v.repr]
      [] v.type = "str" -> [json |-> "string", s |-> v.s]
      [] v.type \in {"list", "tuple"} ->
             [json |-> "array", items |-> [i \in DOMAIN v.items |-> json_dump(v.items[i])]]
      [] v.type = "dict" ->
             [json |-> "object",
              entries |-> [name \in DOMAIN v.entries |-> json_dump(v.entries[name])]]
      [] OTHER -> [json |-> "string", s |-> v.str]

\* What json.load reads: an array as a list, an object as a dict, a number as
\* an int or a float by its form.
RECURSIVE json_load(_)
json_load(j) ==
    CASE j.json = "null" -> PyNone
      [] j.json = "true" -> PyBool(TRUE)
      [] j.json = "false" -> PyBool(FALSE)
      [] j.json = "number" ->
             IF "int" \in DOMAIN j THEN PyInt(j.int) ELSE PyFloat(j.float)
      [] j.json = "string" -> PyStr(j.s)
      [] j.json = "array" -> PyList([i \in DOMAIN j.items |-> json_load(j.items[i])])
      [] j.json = "object" ->
             PyDict([name \in DOMAIN j.entries |-> json_load(j.entries[name])])

save_to_file(st) ==
    [exists |-> TRUE,
     vectors |-> [i \in 1..Len(st.order) |->
                     [key |-> st.order[i], list |-> tolist(st.vectors[st.order[i]])]],
     metadata |-> [k \in DOMAIN st.metadata |->
                      [name \in DOMAIN st.heap[st.metadata[k]] |->
                          json_dump(st.heap[st.metadata[k]][name])]]]

\* the metadata dict json.load makes of the object under a key of the file
LoadedDict(object) == [name \in DOMAIN object |-> json_load(object[name])]

\* A faulty load_from_file, for C7: the mappings are not reset, the file is
\* read into the mappings as they are.
load_from_file_merging(st, f) ==
    IF ~f.exists THEN [st |-> st, exc |-> "FileNotFoundError"]
    ELSE LET fkeys == {f.vectors[i].key : i \in 1..Len(f.vectors)}
             pos(k) == CHOOSE i \in 1..Len(f.vectors) : f.vectors[i].key = k
             base == MaxOf(DOMAIN st.heap)
             added == SelectSeq([i \in 1..Len(f.vectors) |-> f.vectors[i].key],
                                LAMBDA k : k \notin DOMAIN st.vectors)
         IN  [st |-> [order |-> st.order \o added,
                      vectors |-> [k \in DOMAIN st.vectors \cup fkeys |->
                                      IF k \in fkeys THEN f.vectors[pos(k)].list
                                      ELSE st.vectors[k]],
                      metadata |-> [k \in DOMAIN st.metadata \cup DOMAIN f.metadata |->
                                       IF k \in DOMAIN f.metadata THEN base + KeyIdx(k)
                                       ELSE st.metadata[k]],
                      heap |-> [r \in DOMAIN st.heap
                                       \cup {base + KeyIdx(k) : k \in DOMAIN f.metadata} |->
                                   IF r \in DOMAIN st.heap THEN st.heap[r]
                                   ELSE LoadedDict(f.metadata[KeyNames[r - base]])]],
              exc |-> "none"]

\* load_from_file: both mappings are replaced by new ones, filled from the
\* file; every metadata object read is a new dict.  open() of a file that does
\* not exist raises before anything is reset.
load_from_file(st, f) ==
    IF ~f.exists THEN [st |-> st, exc |-> "FileNotFoundError"]
    ELSE LET keys == {f.vectors[i].key : i \in 1..Len(f.vectors)}
             pos(k) == CHOOSE i \in 1..Len(f.vectors) : f.vectors[i].key = k
         IN  [st |-> [order |-> [i \in 1..Len(f.vectors) |-> f.vectors[i].key],
                      vectors |-> [k \in keys |-> f.vectors[pos(k)].list],
                      metadata |-> [k \in DOMAIN f.metadata |-> KeyIdx(k)],
                      heap |-> [r \in {KeyIdx(k) : k \in DOMAIN f.metadata}
                                       \cup CallerRefs(st) |->
                                   IF r < NoRef THEN st.heap[r]
                                   ELSE LoadedDict(f.metadata[KeyNames[r]])]],
              exc |-> "none"]

\* what a store holds, by value: its keys in order, their vectors, their metadata
Content(st) ==
    [order |-> st.order,
     vectors |-> st.vectors,
     metadata |-> [k \in DOMAIN st.metadata |-> st.heap[st.metadata[k]]]]

(***************************************************************************)
(* abuild_from_list is a coroutine: it calls the provider with             *)
(* list_of_text and is suspended at the await of line 195, while other     *)
(* coroutines run, until the provider has answered; then it runs lines     *)
(* 196-201 to the end.  The operator abuild_from_list is that second part: *)
(* embeddings is what the provider returned for list_of_text (one vector   *)
(* per text), and st and mdl are the store and the metadata_list as they   *)
(* are when the coroutine is resumed.  mdl is [given, items, shared];      *)
(* given FALSE is None, items are the contents of the dicts, and shared    *)
(* says that the entries are one and the same dict object (as in [d] * n)  *)
(* rather than a dict each.                                                *)
(***************************************************************************)
Min(a, b) == IF a < b THEN a ELSE b

RECURSIVE InsertAll(_, _, _, _, _, _)
InsertAll(st, texts, embeddings, refs, i, n) ==
    IF i > n THEN st
    ELSE InsertAll(insert(st, texts[i], embeddings[i], refs[i]),
                   texts, embeddings, refs, i + 1, n)

RECURSIVE AllocAll(_, _, _, _)
AllocAll(st, base, items, i) ==
    IF i > Len(items) THEN st
    ELSE AllocAll(Alloc(st, base + i, items[i]), base, items, i + 1)

abuild_from_list(st, list_of_text, embeddings, mdl) ==
    LET defaulted == ~mdl.given \/ Len(mdl.items) = 0
        items == IF defaulted THEN [i \in 1..Len(list_of_text) |-> EmptyMap] ELSE mdl.items
        shared == defaulted \/ mdl.shared
        base == MaxOf(DOMAIN st.heap)
        st1 == AllocAll(st, base, items, 1)
        refs == [i \in 1..Len(items) |-> IF shared THEN base + 1 ELSE base + i]
        n == Min(Min(Len(list_of_text), Len(embeddings)), Len(items))
    IN  InsertAll(st1, list_of_text, embeddings, refs, 1, n)

\* abuild_from_chunks, lines 208-223: a chunk is [text, metadata], metadata
\* being the reference of the caller's dict (NoRef: the chunk has none, {} is
\* taken); each chunk's metadata is copied pair by pair into a new dict, and
\* the copies are the metadata_list.  The result is the arguments with which
\* line 225 awaits abuild_from_list, which is suspended in its turn.
abuild_from_chunks(st, chunks) ==
    LET texts == [i \in 1..Len(chunks) |-> chunks[i].text]
        chunk_metadata(i) == IF chunks[i].metadata = NoRef THEN EmptyMap
                             ELSE st.heap[chunks[i].metadata]
        metadata_list == [i \in 1..Len(chunks) |->
                             [key \in DOMAIN chunk_metadata(i) |-> chunk_metadata(i)[key]]]
    IN  [list_of_text |-> texts,
         metadata_list |-> [given |-> TRUE, items |-> metadata_list, shared |-> FALSE]]

(***************************************************************************)
(* The splitters.  A text of length L is the sequence of its characters;   *)
(* a chunk is [text, chunk_id, chunk_start, chunk_end, chunk_size] with    *)
(* Python's 0-based offsets.                                               *)
(***************************************************************************)
NoSplitter == [exists |-> FALSE, chunk_size |-> 0, chunk_overlap |-> 0]

\* PDFTextSplitter.__init__: assert chunk_size > chunk_overlap
PDFTextSplitter(chunk_size, chunk_overlap) ==
    IF chunk_size > chunk_overlap
    THEN [exc |-> "none",
          obj |-> [exists |-> TRUE, chunk_size |-> chunk_size, chunk_overlap |-> chunk_overlap]]
    ELSE [exc |-> "AssertionError", obj |-> NoSplitter]

\* YouTubeTextSplitter.__init__: the two sizes are stored as given
YouTubeTextSplitter(chunk_size, chunk_overlap) ==
    [exc |-> "none",
     obj |-> [exists |-> TRUE, chunk_size |-> chunk_size, chunk_overlap |-> chunk_overlap]]

\* list(range(0, stop, step)) for step # 0
RangeFrom0(stop, step) ==
    IF step > 0 /\ stop > 0
    THEN [i \in 1..((stop + step - 1) \div step) |-> (i - 1) * step]
    ELSE <<>>

\* text[lo:hi] for 0 <= lo and 0 <= hi
Slice(text, lo, hi) == SubSeq(text, lo + 1, Min(hi, Len(text)))

\* A faulty window loop, for C11: the step is chunk_size, the overlap is
\* ignored.
WindowChunks_disjoint(splitter, text) ==
    LET starts == RangeFrom0(Len(text), splitter.chunk_size)
    IN  IF splitter.chunk_size - splitter.chunk_overlap = 0
        THEN [exc |-> "ValueError", chunks |-> <<>>]
        ELSE [exc |-> "none",
              chunks |-> [i \in 1..Len(starts) |->
                  LET chunk_text == Slice(text, starts[i], starts[i] + splitter.chunk_size)
                  IN  [text |-> chunk_text,
                       chunk_id |-> i - 1,
                       chunk_start |-> starts[i],
                       chunk_end |-> Min(starts[i] + splitter.chunk_size, Len(text)),
                       chunk_size |-> Len(chunk_text)]]]

\* the loop of PDFTextSplitter.split and of YouTubeTextSplitter.split_by_text;
\* range() raises ValueError on a step of zero
WindowChunks(splitter, text) ==
    LET step == splitter.chunk_size - splitter.chunk_overlap
        starts == RangeFrom0(Len(text), step)
    IN  IF step = 0 THEN [exc |-> "ValueError", chunks |-> <<>>]
        ELSE [exc |-> "none",
              chunks |-> [i \in 1..Len(starts) |->
                  LET chunk_text == Slice(text, starts[i], starts[i] + splitter.chunk_size)
                  IN  [text |-> chunk_text,
                       chunk_id |-> i - 1,
                       chunk_start |-> starts[i],
                       chunk_end |-> Min(starts[i] + splitter.chunk_size, Len(text)),
                       chunk_size |-> Len(chunk_text)]]]

split(splitter, text) == WindowChunks(splitter, text)

split_by_text(splitter, text) == WindowChunks(splitter, text)

(***************************************************************************)
(* YouTubeTextSplitter.split_by_segments.  A string is the sequence of its *)
(* characters, " " being the whitespace; a transcript segment is [text,    *)
(* start, duration] with whole numbers of seconds.                         *)
(***************************************************************************)
Whitespace == {" "}

\* str.strip()
RECURSIVE lstrip(_)
lstrip(s) == IF s # <<>> /\ Head(s) \in Whitespace THEN lstrip(Tail(s)) ELSE s

strip(s) == Reverse(lstrip(Reverse(lstrip(s))))

\* _get_overlap_text: text[-chunk_overlap:], which is the whole text for a
\* chunk_overlap of 0 and text[n:] for a chunk_overlap of -n
_get_overlap_text(splitter, text) ==
    IF Len(text) <= splitter.chunk_overlap THEN text
    ELSE IF splitter.chunk_overlap > 0
         THEN SubSeq(text, Len(text) - splitter.chunk_overlap + 1, Len(text))
         ELSE SubSeq(text, 1 - splitter.chunk_overlap, Len(text))

\* del chunk_metadata["transcript_segments"]
Without(md, name) == [f \in DOMAIN md \ {name} |-> md[f]]

\* A faulty _create_chunk_metadata, for C15: the end time is taken from the
\* first segment of the chunk.
_create_chunk_metadata_first(base_metadata, segments, chunk_id) ==
    IF segments = <<>> THEN Merge(base_metadata, [chunk_id |-> chunk_id])
    ELSE LET start_time == segments[1].start
             end_time == segments[1].start + segments[1].duration
         IN  Without(Merge(base_metadata,
                           [chunk_id |-> chunk_id,
                            timestamp_start |-> start_time,
                            timestamp_end |-> end_time,
                            duration |-> end_time - start_time,
                            segments_included |-> Len(segments),
                            segment_range |-> <<start_time, end_time>>]),
                     "transcript_segments")

\* _create_chunk_metadata; segment_range is the pair of times it formats
_create_chunk_metadata(base_metadata, segments, chunk_id) ==
    IF segments = <<>> THEN Merge(base_metadata, [chunk_id |-> chunk_id])
    ELSE LET start_time == segments[1].start
             end_time == segments[Len(segments)].start + segments[Len(segments)].duration
         IN  Without(Merge(base_metadata,
                           [chunk_id |-> chunk_id,
                            timestamp_start |-> start_time,
                            timestamp_end |-> end_time,
                            duration |-> end_time - start_time,
                            segments_included |-> Len(segments),
                            segment_range |-> <<start_time, end_time>>]),
                     "transcript_segments")

\* the loop of split_by_segments from segment i on; s is [chunks,
\* current_chunk, current_segments, chunk_id]
RECURSIVE SegmentLoop(_, _, _, _, _)
SegmentLoop(splitter, transcript_segments, base_metadata, s, i) ==
    IF i > Len(transcript_segments) THEN s
    ELSE LET segment == transcript_segments[i]
             segment_text == segment.text
             overlap_text == _get_overlap_text(splitter, s.current_chunk)
         IN  IF Len(s.current_chunk \o <<" ">> \o segment_text) > splitter.chunk_size
                /\ s.current_chunk # <<>>
             THEN SegmentLoop(splitter, transcript_segments, base_metadata,
                      [chunks |-> Append(s.chunks,
                           [text |-> strip(s.current_chunk),
                            metadata |-> _create_chunk_metadata(base_metadata,
                                             s.current_segments, s.chunk_id)]),
                       current_chunk |-> IF overlap_text # <<>>
                                         THEN overlap_text \o <<" ">> \o segment_text
                                         ELSE segment_text,
                       current_segments |-> <<segment>>,
                       chunk_id |-> s.chunk_id + 1], i + 1)
             ELSE SegmentLoop(splitter, transcript_segments, base_metadata,
                      [s EXCEPT !.current_chunk = IF s.current_chunk # <<>>
                                                  THEN s.current_chunk \o <<" ">> \o segment_text
                                                  ELSE segment_text,
                                !.current_segments = Append(s.current_segments, segment)],
                      i + 1)

split_by_segments(splitter, transcript_segments, base_metadata) ==
    LET s == SegmentLoop(splitter, transcript_segments, base_metadata,
                 [chunks |-> <<>>, current_chunk |-> <<>>,
                  current_segments |-> <<>>, chunk_id |-> 0], 1)
    IN  IF s.current_chunk # <<>>
        THEN Append(s.chunks,
                 [text |-> strip(s.current_chunk),
                  metadata |-> _create_chunk_metadata(base_metadata, s.current_segments, s.chunk_id)])
        ELSE s.chunks

(***************************************************************************)
(* YouTubeTranscriptLoader.  A URL is the sequence of its pieces, the      *)
(* string being their concatenation: the pieces are the literals of the    *)
(* two patterns of extract_video_id, the four characters a video id may    *)
(* not contain ("&", "?", "#" and the newline), and pieces of other text,  *)
(* none of which holds one of those characters or completes a literal.     *)
(* re.search is then a search over pieces.                                 *)
(***************************************************************************)
NewYouTubeTranscriptLoader ==
    [video_id |-> [none |-> TRUE, id |-> <<>>],
     video_info |-> [given |-> FALSE]]

\* the characters [^&\n?#] excludes
Excluded == {"&", "\n", "?", "#"}

\* ([^&\n?#]+) at piece i: the longest run of pieces without an excluded
\* character; empty when the group cannot match there
Group(url, i) ==
    LET stops == {j \in i..Len(url) : url[j] \in Excluded}
        stop == IF stops = {} THEN Len(url) + 1
                ELSE CHOOSE j \in stops : \A m \in stops : j <= m
    IN  SubSeq(url, i, stop - 1)

WatchAt(url, p) ==
    p + 1 <= Len(url) /\ url[p] = "youtube.com/watch" /\ url[p + 1] = "?"

\* where the group begins when the first pattern's alternation matches at
\* piece p, 0 when it does not
Prefix1(url, p) ==
    IF WatchAt(url, p) /\ p + 2 <= Len(url) /\ url[p + 2] = "v=" THEN p + 3
    ELSE IF url[p] \in {"youtu.be/", "youtube.com/embed/"} THEN p + 1
    ELSE 0

\* re.search of the first pattern: the leftmost match
Search1(url) ==
    LET at == {p \in 1..Len(url) : Prefix1(url, p) # 0 /\ Group(url, Prefix1(url, p)) # <<>>}
    IN  IF at = {} THEN <<>>
        ELSE Group(url, Prefix1(url, CHOOSE p \in at : \A m \in at : p <= m))

\* the pieces q at which "v=" can end the greedy .* of the second pattern
\* begun at p: .* does not cross a newline
Ends2(url, p) ==
    {q \in (p + 2)..Len(url) :
        /\ url[q] = "v="
        /\ \A j \in (p + 2)..(q - 1) : url[j] # "\n"
        /\ Group(url, q + 1) # <<>>}

\* re.search of the second pattern: the leftmost match, .* as long as it can be
Search2(url) ==
    LET at == {p \in 1..Len(url) : WatchAt(url, p) /\ Ends2(url, p) # {}}
    IN  IF at = {} THEN <<>>
        ELSE LET p == CHOOSE x \in at : \A m \in at : x <= m
                 q == CHOOSE x \in Ends2(url, p) : \A m \in Ends2(url, p) : m <= x
             IN  Group(url, q + 1)

extract_video_id(url) ==
    IF Search1(url) # <<>> THEN [exc |-> "none", id |-> Search1(url)]
    ELSE IF Search2(url) # <<>> THEN [exc |-> "none", id |-> Search2(url)]
    ELSE [exc |-> "ValueError", id |-> <<>>]

\* the mock of get_video_info; upload_date is the clock's reading
get_video_info(video_id, now) ==
    [video_id |-> video_id, title |-> <<"Video ">> \o video_id,
     channel |-> "Sample Channel", duration |-> "10:30", upload_date |-> now,
     description |-> "Sample video description", view_count |-> 1000,
     like_count |-> 50, language |-> "en"]

\* load_video_content: any exception of the body is caught and a plain
\* Exception is raised in its place.  Nothing in the body after
\* extract_video_id fails.  clock is the pair of readings of datetime.now().
\* Of the metadata, the transcript is kept by its size: the mock transcript
\* has 10 segments and 739 characters when joined.
load_video_content(loader, url, clock) ==
    LET r == extract_video_id(url)
        md == [info |-> get_video_info(r.id, clock[1]),
               source |-> url, source_type |-> "youtube",
               total_segments |-> 10, transcript_length |-> 739,
               loader |-> "YouTubeTranscriptLoader", processed_date |-> clock[2]]
    IN  IF r.exc # "none"
        THEN [loader |-> loader, exc |-> "Exception", metadata |-> [given |-> FALSE]]
        ELSE [loader |-> [video_id |-> [none |-> FALSE, id |-> r.id],
                          video_info |-> [given |-> TRUE, metadata |-> md]],
              exc |-> "none",
              metadata |-> [given |-> TRUE, metadata |-> md]]

NoLoader == [exists |-> FALSE]

(***************************************************************************)
(* PDFFileLoader.  A path is the sequence of its pieces, directories       *)
(* first and the extension last.  The files and directories of the file    *)
(* system are fixed ones: Files and Directories.  The order in which       *)
(* os.walk yields the files of a directory is the file system's, and       *)
(* differs from one file system to another: Listings is the set of the     *)
(* orders it can have, the files of a directory before those of its        *)
(* subdirectories, and the variable listing is the one it has.  Pages is   *)
(* the number of pages of each file a PDF library can read (the libraries  *)
(* fail on the others) and Info the document information of the file.      *)
(* PDF_AVAILABLE and PYMUPDF_AVAILABLE, set when the module is imported,   *)
(* are kept with the loader.                                               *)
(***************************************************************************)
Directories == {<<"docs/">>, <<"docs/", "old/">>, <<"bad/">>, <<"empty/">>}

DocsFiles == {<<"docs/", "a", ".pdf">>, <<"docs/", "b", ".PDF">>, <<"docs/", "notes", ".txt">>}
OldFiles == {<<"docs/", "old/", "c", ".pdf">>}
BadFiles == {<<"bad/", "ok", ".pdf">>, <<"bad/", "broken", ".pdf">>}

Files == DocsFiles \cup OldFiles \cup BadFiles

\* the orders in which a directory can list the files of S
Orders(S) ==
    {q \in [1..Cardinality(S) -> S] : \A i, j \in 1..Cardinality(S) : i # j => q[i] # q[j]}

Listings == {d \o o \o b : d \in Orders(DocsFiles), o \in Orders(OldFiles), b \in Orders(BadFiles)}

\* the order of one file system
Listing ==
    << <<"docs/", "a", ".pdf">>, <<"docs/", "b", ".PDF">>, <<"docs/", "notes", ".txt">>,
       <<"docs/", "old/", "c", ".pdf">>,
       <<"bad/", "broken", ".pdf">>, <<"bad/", "ok", ".pdf">> >>

Pages ==
    [f \in {<<"docs/", "a", ".pdf">>, <<"docs/", "b", ".PDF">>,
            <<"docs/", "old/", "c", ".pdf">>, <<"bad/", "ok", ".pdf">>} |->
        IF f = <<"docs/", "a", ".pdf">> THEN 2 ELSE 1]

\* The document information of a readable file: the entries of its
\* information dictionary, or none when the file has no such dictionary.
NoInfo == [none |-> TRUE, entries |-> EmptyMap]

Info ==
    [f \in DOMAIN Pages |->
        CASE f = <<"docs/", "a", ".pdf">> ->
                 [none |-> FALSE, entries |-> [title |-> "A", author |-> "x"]]
          [] f = <<"docs/", "old/", "c", ".pdf">> ->
                 [none |-> FALSE, entries |-> EmptyMap]
          [] f = <<"bad/", "ok", ".pdf">> ->
                 [none |-> FALSE, entries |-> [title |-> "ok"]]
          [] OTHER -> NoInfo]

isdir(path) == path \in Directories

isfile(path) == path \in Files

\* str.lower() of an extension
lower(piece) == IF piece = ".PDF" THEN ".pdf" ELSE piece

\* path.lower().endswith(".pdf")
EndsWithPdf(path) == path # <<>> /\ lower(path[Len(path)]) = ".pdf"

\* os.walk(path): the files under the directory, in the order of the file
\* system
Walk(path, fs) ==
    SelectSeq(fs, LAMBDA f : Len(f) > Len(path) /\ SubSeq(f, 1, Len(path)) = path)

\* PDFFileLoader.__init__
PDFFileLoader(path, use_pymupdf, pdf_available, pymupdf_available) ==
    IF ~pdf_available /\ ~pymupdf_available
    THEN [exc |-> "ImportError", obj |-> NoLoader]
    ELSE [exc |-> "none",
          obj |-> [exists |-> TRUE, documents |-> <<>>, metadata |-> <<>>, path |-> path,
                   use_pymupdf |-> use_pymupdf,
                   PDF_AVAILABLE |-> pdf_available,
                   PYMUPDF_AVAILABLE |-> pymupdf_available]]

\* dict.get(name, ""): the entry of the information dictionary, or ""
Get(entries, name) == IF name \in DOMAIN entries THEN entries[name] ELSE ""

\* the seven entries both libraries take from the document information
InfoEntries(entries) ==
    [title |-> Get(entries, "title"), author |-> Get(entries, "author"),
     subject |-> Get(entries, "subject"), creator |-> Get(entries, "creator"),
     producer |-> Get(entries, "producer"),
     creation_date |-> Get(entries, "creation_date"),
     modification_date |-> Get(entries, "modification_date")]

\* The metadata entry of a file.  PyMuPDF always gives the seven entries of
\* the document information, "" for what the document does not say.  PyPDF2
\* adds them only under `if pdf_reader.metadata:`, that is when the document
\* has an information dictionary and the dictionary is not empty.
FileMetadata(path, library) ==
    LET base == [source |-> path, total_pages |-> Pages[path], loader |-> library]
        info == Info[path]
    IN  IF library = "PyMuPDF" THEN Merge(base, InfoEntries(info.entries))
        ELSE IF ~info.none /\ info.entries # EmptyMap
             THEN Merge(base, InfoEntries(info.entries))
             ELSE base

\* _load_file_pymupdf and _load_file_pypdf2: the text of the pages, stripped,
\* stands as the file it was read from and its number of pages.  Every
\* failure is raised as ValueError.
ReadFile(loader, library) ==
    IF loader.path \notin DOMAIN Pages THEN [loader |-> loader, exc |-> "ValueError"]
    ELSE [loader |->
              [loader EXCEPT
                  !.documents = Append(@, [of |-> loader.path, pages |-> Pages[loader.path]]),
                  !.metadata = Append(@, FileMetadata(loader.path, library))],
          exc |-> "none"]

load_file(loader) ==
    IF loader.use_pymupdf /\ loader.PYMUPDF_AVAILABLE THEN ReadFile(loader, "PyMuPDF")
    ELSE IF loader.PDF_AVAILABLE THEN ReadFile(loader, "PyPDF2")
    ELSE [loader |-> loader, exc |-> "ImportError"]

\* load_directory over the files from position i on: self.path is set to the
\* file for load_file and set back after it, unless load_file raises
RECURSIVE LoadFrom(_, _, _)
LoadFrom(loader, files, i) ==
    IF i > Len(files) THEN [loader |-> loader, exc |-> "none"]
    ELSE IF ~EndsWithPdf(files[i]) THEN LoadFrom(loader, files, i + 1)
    ELSE LET original_path == loader.path
             r == load_file([loader EXCEPT !.path = files[i]])
         IN  IF r.exc # "none" THEN r
             ELSE LoadFrom([r.loader EXCEPT !.path = original_path], files, i + 1)

load_directory(loader, fs) == LoadFrom(loader, Walk(loader.path, fs), 1)

load(loader, fs) ==
    IF isdir(loader.path) THEN load_directory(loader, fs)
    ELSE IF isfile(loader.path) /\ EndsWithPdf(loader.path) THEN load_file(loader)
    ELSE [loader |-> loader, exc |-> "ValueError"]

\* load_documents and load_documents_with_metadata: the lists returned are
\* the loader's own
load_documents(loader, fs) ==
    LET r == load(loader, fs)
    IN  [loader |-> r.loader, exc |-> r.exc,
         documents |-> IF r.exc = "none" THEN r.loader.documents ELSE <<>>]

load_documents_with_metadata(loader, fs) ==
    LET r == load(loader, fs)
    IN  [loader |-> r.loader, exc |-> r.exc,
         documents |-> IF r.exc = "none" THEN r.loader.documents ELSE <<>>,
         metadata |-> IF r.exc = "none" THEN r.loader.metadata ELSE <<>>]

(***************************************************************************)
(* Actions: one per call.  Each takes the sets its arguments are drawn     *)
(* from, so that the specifications below can explore different inputs.    *)
(***************************************************************************)
SetStore(st) ==
    /\ order' = st.order
    /\ vectors' = st.vectors
    /\ metadata' = st.metadata
    /\ heap' = st.heap

\* The metadata argument of insert: None, a new dict with a content of M, or
\* (when aliasing is explored) the dict object the store holds for a key.
MdArgs(M, aliasing) ==
    {[obj |-> "none", map |-> EmptyMap, of |-> ""]}
    \cup {[obj |-> "new", map |-> m, of |-> ""] : m \in M}
    \cup {[obj |-> "stored", map |-> heap[metadata[k]], of |-> k] :
             k \in IF aliasing THEN DOMAIN metadata ELSE {}}

\* KV is the set of (key, vector) pairs insert may be called with
InsertCall(KV, M, aliasing) ==
    \E kv \in KV, a \in MdArgs(M, aliasing) :
        LET key == kv[1]
            vector == kv[2]
            r == CASE a.obj = "none" -> NoRef
                   [] a.obj = "new" -> FreshRef(Store)
                   [] OTHER -> metadata[a.of]
            st1 == IF a.obj = "new" THEN Alloc(Store, r, a.map) ELSE Store
        IN  /\ SetStore(Normalize(insert(st1, key, vector, r)))
            /\ last' = [op |-> "insert", key |-> key, vector |-> vector,
                        given |-> a.obj # "none", metadata |-> a.map]
            /\ UNCHANGED <<file, saved, splitVars, pending>>

RetrieveCall(K) ==
    \E key \in K :
        /\ last' = [op |-> "retrieve_from_key", key |-> key,
                    ret |-> retrieve_from_key(Store, key)]
        /\ UNCHANGED <<storeVars, file, saved, splitVars, pending>>

UpdateCall(K, M) ==
    \E key \in K, new \in M :
        LET r == update_metadata(Store, key, new)
        IN  /\ SetStore(Normalize(r.st))
            /\ last' = [op |-> "update_metadata", key |-> key, new |-> new, exc |-> r.exc]
            /\ UNCHANGED <<file, saved, splitVars, pending>>

\* F is a sequence of filters and 0 stands for metadata_filter=None
FilterArg(F, i) ==
    IF i = 0 THEN [given |-> FALSE, f |-> EmptyMap] ELSE [given |-> TRUE, f |-> F[i]]

\* the program runs under any of the interpreters
SearchCall(Q, Ks, Ms, F, RS) ==
    \E query_vector \in Q, k \in Ks, metric \in Ms, i \in 0..Len(F), return_scores \in RS,
       interpreter \in Interpreters :
        LET r == search(Store, query_vector, k, metric, FilterArg(F, i), return_scores,
                        interpreter)
        IN  /\ last' = [op |-> "search", query_vector |-> query_vector, k |-> k,
                        metric |-> metric, flt |-> FilterArg(F, i),
                        return_scores |-> return_scores, interpreter |-> interpreter,
                        exc |-> r.exc, results |-> r.results]
            /\ UNCHANGED <<storeVars, file, saved, splitVars, pending>>

\* A call of abuild_from_list runs up to the await of line 195 and is
\* suspended there: pending holds its frame, the arguments it was called
\* with.  The dicts of metadata_list are the caller's objects, which the
\* frame refers to.  At most MaxPending coroutines are suspended at a time.
BuildListCall(T, L) ==
    \E list_of_text \in T, mdl \in L :
        /\ Len(pending) < MaxPending
        /\ pending' = Append(pending, [op |-> "abuild_from_list",
                                       list_of_text |-> list_of_text,
                                       metadata_list |-> mdl,
                                       chunks |-> <<>>, held |-> FALSE])
        /\ last' = [op |-> "await", of |-> "abuild_from_list",
                    list_of_text |-> list_of_text, metadata_list |-> mdl]
        /\ UNCHANGED <<storeVars, file, saved, splitVars>>

\* The caller's chunk dicts are the objects -1, -2, ... of the heap, in place
\* of the ones of its previous call; held says whether the caller keeps them
\* after the call.
Release(st) ==
    [st EXCEPT !.heap = [r \in DOMAIN st.heap \ CallerRefs(st) |-> st.heap[r]]]

Hold(st, dicts) ==
    [st EXCEPT !.heap = [r \in DOMAIN st.heap \cup {-i : i \in 1..Len(dicts)} |->
                            IF r < NoRef THEN dicts[-r] ELSE st.heap[r]]]

\* A call of abuild_from_chunks copies the metadata of the chunks and awaits
\* abuild_from_list, whose frame holds the copies.
BuildChunksCall(C, held) ==
    \E chunks \in C :
        LET passed == [i \in 1..Len(chunks) |-> [text |-> chunks[i].text, metadata |-> -i]]
            st0 == Hold(Release(Store), [i \in 1..Len(chunks) |-> chunks[i].metadata])
            frame == abuild_from_chunks(st0, passed)
        IN  /\ Len(pending) < MaxPending
            /\ pending' = Append(pending, [op |-> "abuild_from_chunks",
                                           list_of_text |-> frame.list_of_text,
                                           metadata_list |-> frame.metadata_list,
                                           chunks |-> chunks, held |-> held])
            /\ heap' = IF held THEN st0.heap ELSE heap
            /\ last' = [op |-> "await", of |-> "abuild_from_chunks",
                        list_of_text |-> frame.list_of_text,
                        metadata_list |-> frame.metadata_list]
            /\ UNCHANGED <<order, vectors, metadata, file, saved, splitVars>>

\* pending without its frame at position i
PendingWithout(i) == [j \in 1..(Len(pending) - 1) |-> IF j < i THEN pending[j] ELSE pending[j + 1]]

\* The provider answers one of the suspended calls, and the coroutine runs
\* lines 196-201 on the store as it is now.  E is the set of providers: a
\* provider e answers a list of texts with the vector e[<<i, text>>] at
\* position i.
ResumeCall(E) ==
    \E i \in 1..Len(pending), e \in E :
        LET frame == pending[i]
            list_of_text == frame.list_of_text
            embeddings == [j \in 1..Len(list_of_text) |-> e[<<j, list_of_text[j]>>]]
        IN  /\ SetStore(Normalize(abuild_from_list(Store, list_of_text, embeddings,
                                                   frame.metadata_list)))
            /\ pending' = PendingWithout(i)
            /\ last' = IF frame.op = "abuild_from_list"
                       THEN [op |-> "abuild_from_list", list_of_text |-> list_of_text,
                             embeddings |-> embeddings,
                             metadata_list |-> frame.metadata_list]
                       ELSE [op |-> "abuild_from_chunks", chunks |-> frame.chunks,
                             embeddings |-> embeddings, held |-> frame.held]
            /\ UNCHANGED <<file, saved, splitVars>>

\* While a call of abuild_from_list is suspended, the caller writes the
\* pairs of w into a dict of the metadata_list it passed.
CallerWritesPending(W) ==
    \E i \in 1..Len(pending), w \in W :
        LET mdl == pending[i].metadata_list
        IN  /\ pending[i].op = "abuild_from_list"
            /\ mdl.given
            /\ \E j \in 1..Len(mdl.items) :
                   LET items == [n \in 1..Len(mdl.items) |->
                                    IF n = j \/ mdl.shared THEN Merge(mdl.items[n], w)
                                    ELSE mdl.items[n]]
                   IN  /\ items # mdl.items
                       /\ pending' = [pending EXCEPT ![i].metadata_list.items = items]
                       /\ last' = [op |-> "write", position |-> j, pairs |-> w]
            /\ UNCHANGED <<storeVars, file, saved, splitVars>>

\* The caller writes the pairs of w into the metadata dict of a chunk it
\* holds.
CallerWritesHeld(W) ==
    \E r \in CallerRefs(Store), w \in W :
        /\ Merge(heap[r], w) # heap[r]
        /\ heap' = [heap EXCEPT ![r] = Merge(@, w)]
        /\ last' = [op |-> "write", position |-> -r, pairs |-> w]
        /\ UNCHANGED <<order, vectors, metadata, pending, file, saved, splitVars>>

SaveCall ==
    /\ file' = save_to_file(Store)
    /\ saved' = Content(Store)
    /\ last' = [op |-> "save_to_file"]
    /\ UNCHANGED <<storeVars, splitVars, pending>>

LoadCall ==
    LET r == load_from_file(Store, file)
    IN  /\ SetStore(Normalize(r.st))
        /\ last' = [op |-> "load_from_file", exc |-> r.exc, before |-> DOMAIN vectors]
        /\ UNCHANGED <<file, saved, splitVars, pending>>

PDFSplitterCall(S, O) ==
    \E chunk_size \in S, chunk_overlap \in O :
        LET r == PDFTextSplitter(chunk_size, chunk_overlap)
        IN  /\ pdf_splitter' = IF r.exc = "none" THEN r.obj ELSE pdf_splitter
            /\ last' = [op |-> "PDFTextSplitter", chunk_size |-> chunk_size,
                        chunk_overlap |-> chunk_overlap, exc |-> r.exc]
            /\ UNCHANGED <<storeVars, file, saved, yt_splitter, pending>>

YouTubeSplitterCall(S, O) ==
    \E chunk_size \in S, chunk_overlap \in O :
        LET r == YouTubeTextSplitter(chunk_size, chunk_overlap)
        IN  /\ yt_splitter' = IF r.exc = "none" THEN r.obj ELSE yt_splitter
            /\ last' = [op |-> "YouTubeTextSplitter", chunk_size |-> chunk_size,
                        chunk_overlap |-> chunk_overlap, exc |-> r.exc]
            /\ UNCHANGED <<storeVars, file, saved, pdf_splitter, pending>>

TextOfLen(n) == [i \in 1..n |-> i]

PDFSplitCall(Ls) ==
    /\ pdf_splitter.exists
    /\ \E n \in Ls :
        LET r == split(pdf_splitter, TextOfLen(n))
        IN  /\ last' = [op |-> "split", text |-> TextOfLen(n),
                        step |-> pdf_splitter.chunk_size - pdf_splitter.chunk_overlap,
                        exc |-> r.exc, chunks |-> r.chunks]
            /\ UNCHANGED <<storeVars, file, saved, splitVars, pending>>

YouTubeSplitCall(Ls) ==
    /\ yt_splitter.exists
    /\ \E n \in Ls :
        LET r == split_by_text(yt_splitter, TextOfLen(n))
        IN  /\ last' = [op |-> "split_by_text", text |-> TextOfLen(n),
                        step |-> yt_splitter.chunk_size - yt_splitter.chunk_overlap,
                        exc |-> r.exc, chunks |-> r.chunks]
            /\ UNCHANGED <<storeVars, file, saved, splitVars, pending>>

\* T is the set of transcripts and M the set of video metadata the call may
\* be given
SplitBySegmentsCall(T, M) ==
    /\ yt_splitter.exists
    /\ \E transcript_segments \in T, md \in M :
        /\ last' = [op |-> "split_by_segments", transcript_segments |-> transcript_segments,
                    metadata |-> md, splitter |-> yt_splitter,
                    chunks |-> split_by_segments(yt_splitter, transcript_segments, md)]
        /\ UNCHANGED <<storeVars, file, saved, splitVars, pending>>

\* P is the set of paths, L the set of pairs <<PDF_AVAILABLE,
\* PYMUPDF_AVAILABLE>> the module may have been imported with
PDFLoaderCall(P, L) ==
    \E path \in P, use_pymupdf \in BOOLEAN, libraries \in L :
        LET r == PDFFileLoader(path, use_pymupdf, libraries[1], libraries[2])
        IN  /\ pdf_loader' = IF r.exc = "none" THEN r.obj ELSE pdf_loader
            /\ last' = [op |-> "PDFFileLoader", path |-> path, exc |-> r.exc]
            /\ UNCHANGED <<storeVars, file, saved, splitVars, yt_loader, listing, pending>>

LoadDocumentsCall ==
    /\ pdf_loader.exists
    /\ LET r == load_documents(pdf_loader, listing)
       IN  /\ pdf_loader' = r.loader
           /\ last' = [op |-> "load_documents", path |-> pdf_loader.path, exc |-> r.exc,
                       documents |-> r.documents, metadata |-> <<>>]
           /\ UNCHANGED <<storeVars, file, saved, splitVars, yt_loader, listing, pending>>

LoadDocumentsWithMetadataCall ==
    /\ pdf_loader.exists
    /\ LET r == load_documents_with_metadata(pdf_loader, listing)
       IN  /\ pdf_loader' = r.loader
           /\ last' = [op |-> "load_documents_with_metadata", path |-> pdf_loader.path,
                       exc |-> r.exc, documents |-> r.documents, metadata |-> r.metadata]
           /\ UNCHANGED <<storeVars, file, saved, splitVars, yt_loader, listing, pending>>

\* load, load_file and load_directory called on the loader directly: they
\* change the loader and return None
LoaderLoadCall ==
    /\ pdf_loader.exists
    /\ LET r == load(pdf_loader, listing)
       IN  /\ pdf_loader' = r.loader
           /\ last' = [op |-> "load", path |-> pdf_loader.path, exc |-> r.exc,
                       documents |-> <<>>, metadata |-> <<>>]
           /\ UNCHANGED <<storeVars, file, saved, splitVars, yt_loader, listing, pending>>

LoadFileCall ==
    /\ pdf_loader.exists
    /\ LET r == load_file(pdf_loader)
       IN  /\ pdf_loader' = r.loader
           /\ last' = [op |-> "load_file", path |-> pdf_loader.path, exc |-> r.exc,
                       documents |-> <<>>, metadata |-> <<>>]
           /\ UNCHANGED <<storeVars, file, saved, splitVars, yt_loader, listing, pending>>

LoadDirectoryCall ==
    /\ pdf_loader.exists
    /\ LET r == load_directory(pdf_loader, listing)
       IN  /\ pdf_loader' = r.loader
           /\ last' = [op |-> "load_directory", path |-> pdf_loader.path, exc |-> r.exc,
                       documents |-> <<>>, metadata |-> <<>>]
           /\ UNCHANGED <<storeVars, file, saved, splitVars, yt_loader, listing, pending>>

\* U is the set of URLs the call may be given
ExtractCall(U) ==
    \E url \in U :
        LET r == extract_video_id(url)
        IN  /\ last' = [op |-> "extract_video_id", url |-> url, exc |-> r.exc, id |-> r.id]
            /\ UNCHANGED <<storeVars, file, saved, splitVars, calls, loaderVars, pending>>

\* the clock does not run backwards between the two readings
LoadVideoCall(U) ==
    \E url \in U, clock \in {<<1, 1>>, <<1, 2>>} :
        LET r == load_video_content(yt_loader, url, clock)
        IN  /\ yt_loader' = r.loader
            /\ last' = [op |-> "load_video_content", url |-> url, exc |-> r.exc,
                        metadata |-> r.metadata]
            /\ UNCHANGED <<storeVars, file, saved, splitVars, calls, pdf_loader, listing, pending>>

(***************************************************************************)
(* Input sets.                                                             *)
(***************************************************************************)
SeqsUpTo(S, n) == UNION {[1..m -> S] : m \in 0..n}

\* the sequences of distinct elements of S
InjSeqs(S) ==
    {q \in SeqsUpTo(S, Cardinality(S)) : \A i, j \in 1..Len(q) : i # j => q[i] # q[j]}

\* the lists of distinct keys in KeyNames order
SortedTexts == {q \in InjSeqs(Keys) : \A i, j \in 1..Len(q) : i < j => KeyIdx(q[i]) < KeyIdx(q[j])}

CatA == "category" :> "animals"
CatF == "category" :> "food"

\* Metadata of the stores that are saved, with the types of the values:
\* {'category': 'animals'}
StrA == "category" :> PyStr("animals")
\* {'category': 'animals', 'pages': (1, 2)}
PagesTuple == StrA @@ ("pages" :> PyTuple(<<PyInt(1), PyInt(2)>>))
\* {'length': 30, 'tags': ['x', None, True, 0.5], 'video': {'id': 'v', 'parts': [1, 2]}}
Plain ==
    ("length" :> PyInt(30))
    @@ ("tags" :> PyList(<<PyStr("x"), PyNone, PyBool(TRUE), PyFloat("0.5")>>))
    @@ ("video" :> PyDict(("id" :> PyStr("v")) @@ ("parts" :> PyList(<<PyInt(1), PyInt(2)>>))))
\* {'spans': [(0, 5), 30], 'range': ((1,), 'x'), 'price': Decimal('1.5'),
\*  'count': numpy.int64(30), 'video': {'id': 'v', 'at': (1, 2)}}
Mixed ==
    ("spans" :> PyList(<<PyTuple(<<PyInt(0), PyInt(5)>>), PyInt(30)>>))
    @@ ("range" :> PyTuple(<<PyTuple(<<PyInt(1)>>), PyStr("x")>>))
    @@ ("price" :> PyOther("Decimal", "1.5"))
    @@ ("count" :> PyOther("numpy.int64", "30"))
    @@ ("video" :> PyDict(("id" :> PyStr("v")) @@ ("at" :> PyTuple(<<PyInt(1), PyInt(2)>>))))
FoodLen == ("category" :> "food") @@ ("length" :> 30)
Maps == {EmptyMap, CatA, FoodLen}
Vecs == {<<1, 0>>, <<0, 1>>}

EmbeddingOf(text) == <<KeyIdx(text), 1>>

\* a provider that embeds each text by EmbeddingOf, and one whose vector
\* depends on the position in the list
ByText == [p \in (1..MaxTexts) \X Keys |-> EmbeddingOf(p[2])]
ByPosition == [p \in (1..MaxTexts) \X Keys |-> <<p[1], 2>>]

NotGiven == [given |-> FALSE, items |-> <<>>, shared |-> FALSE]

InitCommon ==
    /\ file = NoFile
    /\ saved = Content(EmptyStore)
    /\ last = [op |-> "__init__"]
    /\ pdf_splitter = NoSplitter
    /\ yt_splitter = NoSplitter
    /\ calls = 0
    /\ yt_loader = NewYouTubeTranscriptLoader
    /\ pdf_loader = NoLoader
    /\ pending = <<>>

\* one more call of a behaviour of at most MaxCalls calls
Count == calls < MaxCalls /\ calls' = calls + 1 /\ UNCHANGED loaderVars

Init ==
    /\ order = <<>>
    /\ vectors = EmptyMap
    /\ metadata = EmptyMap
    /\ heap = EmptyMap
    /\ InitCommon
    /\ listing = Listing

\* the same, on any file system
InitPDF ==
    /\ order = <<>>
    /\ vectors = EmptyMap
    /\ metadata = EmptyMap
    /\ heap = EmptyMap
    /\ InitCommon
    /\ listing \in Listings

(***************************************************************************)
(* Spec: the store from its construction, under every sequence of at most  *)
(* MaxCalls of its calls, with the file.  A key is a text and its vector   *)
(* the embedding of that text.  A build is suspended at its await, and the *)
(* other calls run before it is resumed.                                   *)
(***************************************************************************)
Call_insert ==
    /\ Count
    /\ InsertCall({<<k, EmbeddingOf(k)>> : k \in Keys}, {EmptyMap, PagesTuple, Plain, Mixed},
                  FALSE)
Call_retrieve_from_key == Count /\ RetrieveCall(Keys)
Call_update_metadata == Count /\ UpdateCall(Keys, {StrA})
Call_search ==
    /\ Count
    /\ SearchCall({<<1, 1>>}, {NumKeys}, {"dot_product", "chebyshev"}, <<>>, {TRUE})
Call_abuild_from_list ==
    /\ Count
    /\ BuildListCall(SortedTexts,
                     {NotGiven, [given |-> TRUE, items |-> <<StrA>>, shared |-> FALSE]})
Call_abuild_from_chunks ==
    /\ Count
    /\ BuildChunksCall({[i \in 1..Len(t) |-> [text |-> t[i], metadata |-> StrA]] :
                           t \in SortedTexts},
                       FALSE)
Resume_abuild_from_list == ResumeCall({ByText}) /\ UNCHANGED <<calls, loaderVars>>
Call_save_to_file == Count /\ SaveCall
Call_load_from_file == Count /\ LoadCall

Next ==
    \/ Call_insert
    \/ Call_retrieve_from_key
    \/ Call_update_metadata
    \/ Call_search
    \/ Call_abuild_from_list
    \/ Call_abuild_from_chunks
    \/ Resume_abuild_from_list
    \/ Call_save_to_file
    \/ Call_load_from_file

Spec == Init /\ [][Next]_vars

(***************************************************************************)
(* SpecPersist: every sequence of at most MaxCalls calls of insert,        *)
(* update_metadata, save_to_file and load_from_file, with every vector of  *)
(* Vecs and the metadata above.                                            *)
(***************************************************************************)
Persist_insert == Count /\ InsertCall(Keys \X Vecs, {EmptyMap, PagesTuple, Plain, Mixed}, FALSE)
Persist_update_metadata == Count /\ UpdateCall(Keys, {StrA})
Persist_save_to_file == Count /\ SaveCall
Persist_load_from_file == Count /\ LoadCall

NextPersist ==
    \/ Persist_insert
    \/ Persist_update_metadata
    \/ Persist_save_to_file
    \/ Persist_load_from_file

SpecPersist == Init /\ [][NextPersist]_vars

(***************************************************************************)
(* SpecUpdate: every sequence of at most MaxCalls calls of insert,         *)
(* update_metadata and retrieve_from_key with every vector and metadata of *)
(* Vecs and Maps, dicts shared between keys included.                      *)
(***************************************************************************)
Update_insert == Count /\ InsertCall(Keys \X Vecs, Maps, TRUE)
Update_update_metadata == Count /\ UpdateCall(Keys, Maps)
Update_retrieve_from_key == Count /\ RetrieveCall(Keys)

NextUpdate ==
    \/ Update_insert
    \/ Update_update_metadata
    \/ Update_retrieve_from_key

SpecUpdate == Init /\ [][NextUpdate]_vars

(***************************************************************************)
(* SpecBuild: insert and the two batch builds, with repeated texts, lists  *)
(* of metadata of every length up to MaxTexts and both providers.  While   *)
(* a build is suspended, inserts and other builds run, and the caller      *)
(* writes to the dicts of the metadata_list it passed.                     *)
(***************************************************************************)
Texts == SeqsUpTo(Keys, MaxTexts)

MetadataLists ==
    {NotGiven}
    \cup {[given |-> TRUE, items |-> l, shared |-> FALSE] :
             l \in SeqsUpTo({EmptyMap, CatA}, MaxTexts)}
    \cup {[given |-> TRUE, items |-> [i \in 1..MaxTexts |-> CatA], shared |-> TRUE]}

Chunks == SeqsUpTo([text : Keys, metadata : {EmptyMap, CatA}], MaxTexts)

Build_insert ==
    /\ InsertCall({<<k, EmbeddingOf(k)>> : k \in Keys}, {CatA}, FALSE)
    /\ UNCHANGED <<calls, loaderVars>>
Build_abuild_from_list ==
    /\ BuildListCall(Texts, MetadataLists)
    /\ UNCHANGED <<calls, loaderVars>>
Build_abuild_from_chunks ==
    /\ BuildChunksCall(Chunks, FALSE)
    /\ UNCHANGED <<calls, loaderVars>>
Build_resume ==
    /\ ResumeCall({ByText, ByPosition})
    /\ UNCHANGED <<calls, loaderVars>>
Build_write ==
    /\ CallerWritesPending({CatF})
    /\ UNCHANGED <<calls, loaderVars>>

NextBuild ==
    \/ Build_insert
    \/ Build_abuild_from_list
    \/ Build_abuild_from_chunks
    \/ Build_resume
    \/ Build_write

SpecBuild == Init /\ [][NextBuild]_vars

(***************************************************************************)
(* SpecMetric and SpecFilter: search as a function of the store and its    *)
(* arguments.  Init draws a store that inserts (and update_metadata) can   *)
(* build, and one search is applied to it.                                 *)
(***************************************************************************)
NumDocs == 3
DocKeys == {KeyNames[i] : i \in 1..NumDocs}

\* the store holding the keys of ord in that order, vectors vs, and for each
\* key k the metadata MdSeq[c[k]] in a dict of its own (none when c[k] = 0)
MkStore(ord, vs, MdSeq, c) ==
    LET with == {k \in Range(ord) : c[k] # 0}
    IN  Normalize([order |-> ord,
                   vectors |-> vs,
                   metadata |-> [k \in with |-> KeyIdx(k)],
                   heap |-> [r \in {KeyIdx(k) : k \in with} |-> MdSeq[c[KeyNames[r]]]]])

MetricVecs == {<<0, 0>>, <<1, 0>>, <<-1, 1>>}

InitMetric ==
    /\ \E ord \in InjSeqs(DocKeys) :
       \E vs \in [Range(ord) -> MetricVecs] :
           LET st == MkStore(ord, vs, <<>>, [k \in Range(ord) |-> 0])
           IN  /\ order = st.order
               /\ vectors = st.vectors
               /\ metadata = st.metadata
               /\ heap = st.heap
    /\ InitCommon
    /\ listing = Listing

MetricSearch ==
    /\ last.op = "__init__"
    /\ SearchCall(MetricVecs, (-1)..(NumDocs + 1), distance_metrics \cup {"chebyshev"},
                  <<>>, {TRUE})
    /\ UNCHANGED <<calls, loaderVars>>

SpecMetric == InitMetric /\ [][MetricSearch]_vars

DocMaps ==
    << CatA,
       "length" :> 30,
       ("category" :> "animals") @@ ("length" :> 29),
       ("category" :> "animals") @@ ("length" :> 30),
       ("category" :> "food") @@ ("length" :> 31) >>

Ops(m) == [shape |-> "ops", v |-> m]
ListOf(l) == [shape |-> "list", v |-> l]
Scalar(x) == [shape |-> "scalar", v |-> x]

Filters ==
    << EmptyMap,
       "category" :> Scalar("animals"),
       "category" :> ListOf(<<"food", "animals">>),
       "category" :> ListOf(<<"food">>),
       "category" :> Ops("$in" :> <<"animals">>),
       "length" :> Scalar(30),
       "length" :> Ops("$gte" :> 30),
       "length" :> Ops("$gt" :> 30),
       "length" :> Ops("$lte" :> 30),
       "length" :> Ops("$lt" :> 30),
       "length" :> Ops("$in" :> <<29, 31>>),
       "length" :> Ops("$nin" :> <<29, 31>>),
       "length" :> Ops(("$gte" :> 30) @@ ("$lt" :> 31)),
       "length" :> Ops(EmptyMap),
       ("category" :> Scalar("animals")) @@ ("length" :> Ops("$gte" :> 30)) >>

InitFilter ==
    /\ \E n \in 0..NumDocs :
       \E c \in [{KeyNames[i] : i \in 1..n} -> 0..Len(DocMaps)] :
           LET ord == [i \in 1..n |-> KeyNames[i]]
               st == MkStore(ord, [k \in Range(ord) |-> <<1, 0>>], DocMaps, c)
           IN  /\ order = st.order
               /\ vectors = st.vectors
               /\ metadata = st.metadata
               /\ heap = st.heap
    /\ InitCommon
    /\ listing = Listing

FilterSearch ==
    /\ last.op = "__init__"
    /\ SearchCall({<<1, 0>>}, {-1, 1, NumDocs}, {"euclidean", "chebyshev"},
                  Filters, {TRUE, FALSE})
    /\ UNCHANGED <<calls, loaderVars>>

SpecFilter == InitFilter /\ [][FilterSearch]_vars

(***************************************************************************)
(* SpecSplit: the two splitters, constructed with every pair of sizes up   *)
(* to MaxSize and applied to every text up to MaxTextLen characters.       *)
(***************************************************************************)
MaxSize == 3
MaxTextLen == 5

New_PDFTextSplitter == PDFSplitterCall(0..MaxSize, 0..MaxSize) /\ UNCHANGED <<calls, loaderVars>>
New_YouTubeTextSplitter == YouTubeSplitterCall(0..MaxSize, 0..MaxSize) /\ UNCHANGED <<calls, loaderVars>>
Call_split == PDFSplitCall(0..MaxTextLen) /\ UNCHANGED <<calls, loaderVars>>
Call_split_by_text == YouTubeSplitCall(0..MaxTextLen) /\ UNCHANGED <<calls, loaderVars>>

NextSplit ==
    \/ New_PDFTextSplitter
    \/ New_YouTubeTextSplitter
    \/ Call_split
    \/ Call_split_by_text

SpecSplit == Init /\ [][NextSplit]_vars

(***************************************************************************)
(* The properties.                                                         *)
(***************************************************************************)
Returned == {last.results[i].key : i \in 1..Len(last.results)}

\* C1 (SpecUpdate): after insert(key, vector, metadata), retrieve_from_key(key)
\* returns that vector with exactly that metadata, the empty mapping when no
\* metadata was given, whatever the key held before.
C1_InsertThenRetrieve ==
    last.op = "insert" =>
        retrieve_from_key(Store, last.key) =
            [none |-> FALSE, vector |-> last.vector, metadata |-> last.metadata]

\* the case C1 fails on: an insert without metadata on a key that has metadata
C1_StaleMetadata ==
    /\ last.op = "insert"
    /\ ~last.given
    /\ MetaOf(Store, last.key) # EmptyMap

(***************************************************************************)
(* C2                                                                      *)
(***************************************************************************)
Magnitude2(v) == SumSeq([i \in 1..Len(v) |-> v[i] * v[i]])

\* the scores of the results are in the order the metric asks for
Ordered ==
    \A i \in 1..(Len(last.results) - 1) :
        IF last.metric \in {"cosine", "dot_product"}
        THEN LessEq(last.results[i + 1].score, last.results[i].score)
        ELSE LessEq(last.results[i].score, last.results[i + 1].score)

\* no score of the search is NaN: with integer vectors, every case but a cosine
\* with a query or a stored vector of magnitude zero
ScoresDefined ==
    last.metric = "cosine" =>
        /\ Magnitude2(last.query_vector) # 0
        /\ \A key \in DOMAIN vectors : Magnitude2(vectors[key]) # 0

SearchOfNonEmpty ==
    /\ last.op = "search"
    /\ last.exc = "none"
    /\ last.return_scores
    /\ DOMAIN vectors # {}

\* C2 as stated (SpecMetric): on a non-empty store, for every query vector,
\* every metric and every k, search returns at most min(k, size) results, with
\* scores non-increasing for cosine and dot_product and non-decreasing for
\* euclidean and manhattan.
C2_BoundedAndOrdered ==
    SearchOfNonEmpty =>
        /\ Len(last.results) <= Min(last.k, Cardinality(DOMAIN vectors))
        /\ Ordered

\* C2 amended (SpecMetric): the bound on the number of results holds for every
\* k >= 0, and the order holds for every k when no score is NaN.
C2_BoundedAndOrderedWhenDefined ==
    SearchOfNonEmpty =>
        /\ last.k >= 0 => Len(last.results) <= Min(last.k, Cardinality(DOMAIN vectors))
        /\ ScoresDefined => Ordered

\* a cosine search for the best two of three stored vectors, none of magnitude
\* zero, that returned two results with different scores
C2_Witness ==
    /\ SearchOfNonEmpty
    /\ last.metric = "cosine"
    /\ ScoresDefined
    /\ last.k = 2
    /\ Cardinality(DOMAIN vectors) >= 3
    /\ Len(last.results) = 2
    /\ Less(last.results[2].score, last.results[1].score)

(***************************************************************************)
(* C3, C4: what a filter asks of a document, stated from the documentation *)
(* of search (lines 65-69).                                                *)
(***************************************************************************)
OpHolds(op, value, bound) ==
    CASE op = "$gte" -> value >= bound
      [] op = "$lte" -> value <= bound
      [] op = "$gt" -> value > bound
      [] op = "$lt" -> value < bound
      [] op = "$in" -> \E i \in DOMAIN bound : bound[i] = value
      [] op = "$nin" -> \A i \in DOMAIN bound : bound[i] # value

Satisfies(value, filter_value) ==
    CASE filter_value.shape = "ops" ->
             \A op \in DOMAIN filter_value.v : OpHolds(op, value, filter_value.v[op])
      [] filter_value.shape = "list" ->
             \E i \in DOMAIN filter_value.v : filter_value.v[i] = value
      [] OTHER -> value = filter_value.v

Matching(f) ==
    {key \in DOMAIN vectors :
        \A filter_key \in DOMAIN f :
            /\ filter_key \in DOMAIN MetaOf(Store, key)
            /\ Satisfies(MetaOf(Store, key)[filter_key], f[filter_key])}

FilteredSearch ==
    /\ last.op = "search"
    /\ last.exc = "none"
    /\ last.flt.given
    /\ last.k >= Cardinality(DOMAIN vectors)

ExactlyMatching ==
    /\ Returned = Matching(last.flt.f)
    /\ Len(last.results) = Cardinality(Matching(last.flt.f))
    /\ \A key \in Returned : DOMAIN last.flt.f \subseteq DOMAIN MetaOf(Store, key)

\* C3 as stated (SpecFilter): with a metadata_filter and k >= size, the keys
\* returned are exactly those whose metadata satisfies every filter key, each
\* once; a key whose metadata lacks a filter key, or that has no metadata at
\* all, is never returned, whatever the shape of the filter value.
C3_FilterExact ==
    FilteredSearch =>
        /\ ExactlyMatching
        /\ \A key \in Returned : MetaOf(Store, key) # EmptyMap

\* C3 amended (SpecFilter): the same, but a key that has no metadata at all is
\* never returned only when the filter has at least one key; the empty filter
\* filters nothing.
C3_FilterExactNonEmpty ==
    FilteredSearch =>
        /\ ExactlyMatching
        /\ DOMAIN last.flt.f # {} => \A key \in Returned : MetaOf(Store, key) # EmptyMap

\* a filter of two keys that returned one key and left out one with metadata
\* that lacks a filter key and one without metadata
C3_Witness ==
    /\ FilteredSearch
    /\ Cardinality(DOMAIN last.flt.f) = 2
    /\ Returned # {}
    /\ \E key \in DOMAIN vectors \ Returned :
           /\ MetaOf(Store, key) # EmptyMap
           /\ ~(DOMAIN last.flt.f \subseteq DOMAIN MetaOf(Store, key))
    /\ \E key \in DOMAIN vectors \ Returned : MetaOf(Store, key) = EmptyMap

LengthAtLeast30 ==
    /\ DOMAIN last.flt.f = {"length"}
    /\ last.flt.f["length"].shape = "ops"
    /\ DOMAIN last.flt.f["length"].v = {"$gte"}
    /\ last.flt.f["length"].v["$gte"] = 30

\* C4 (SpecFilter): for a filter value that is a mapping of operators, a key
\* that has the filter key is returned exactly when its value satisfies every
\* operator given: $gte, $lte, $gt, $lt as numeric comparisons, $in as
\* membership in the list, $nin as non-membership; {"length": {"$gte": 30}}
\* returns exactly the keys whose length is at least 30.
C4_OperatorFilter ==
    FilteredSearch =>
        /\ (\A fk \in DOMAIN last.flt.f : last.flt.f[fk].shape = "ops") =>
               \A key \in DOMAIN vectors :
                   DOMAIN last.flt.f \subseteq DOMAIN MetaOf(Store, key) =>
                       (key \in Returned <=>
                            \A fk \in DOMAIN last.flt.f :
                                \A op \in DOMAIN last.flt.f[fk].v :
                                    OpHolds(op, MetaOf(Store, key)[fk], last.flt.f[fk].v[op]))
        /\ LengthAtLeast30 =>
               Returned = {key \in DOMAIN vectors :
                              /\ "length" \in DOMAIN MetaOf(Store, key)
                              /\ MetaOf(Store, key)["length"] >= 30}

\* {"length": {"$gte": 30}} on a store with a length of 29, left out, and a
\* length of 30, returned
C4_Witness ==
    /\ FilteredSearch
    /\ LengthAtLeast30
    /\ \E key \in Returned : MetaOf(Store, key)["length"] = 30
    /\ \E key \in DOMAIN vectors \ Returned :
           /\ "length" \in DOMAIN MetaOf(Store, key)
           /\ MetaOf(Store, key)["length"] = 29

(***************************************************************************)
(* C5                                                                      *)
(***************************************************************************)
\* C5 (SpecUpdate): update_metadata(key, new) on a key not in the store raises
\* KeyError and leaves both mappings unchanged; on a key in the store it
\* merges: afterwards the key's metadata holds every pair of new, every
\* earlier pair whose name is not in new keeps its value, and the key's
\* vector is unchanged.
C5_UpdateMerges ==
    [][\A key \in Keys :
          (last'.op = "update_metadata" /\ last'.key = key) =>
              IF key \notin DOMAIN vectors
              THEN /\ last'.exc = "KeyError"
                   /\ UNCHANGED storeVars
              ELSE /\ last'.exc = "none"
                   /\ key \in DOMAIN vectors'
                   /\ vectors'[key] = vectors[key]
                   /\ \A name \in DOMAIN last'.new :
                          /\ name \in DOMAIN MetaOf(Store, key)'
                          /\ MetaOf(Store, key)'[name] = last'.new[name]
                   /\ \A name \in DOMAIN MetaOf(Store, key) \ DOMAIN last'.new :
                          /\ name \in DOMAIN MetaOf(Store, key)'
                          /\ MetaOf(Store, key)'[name] = MetaOf(Store, key)[name]]_vars

\* an update that succeeded and left an earlier pair beside the new ones
C5_Witness ==
    /\ last.op = "update_metadata"
    /\ last.exc = "none"
    /\ DOMAIN last.new # {}
    /\ DOMAIN MetaOf(Store, last.key) \ DOMAIN last.new # {}

(***************************************************************************)
(* C6                                                                      *)
(***************************************************************************)
SupportedMetrics == {"cosine", "euclidean", "manhattan", "dot_product"}

\* C6 (SpecFilter): search with a distance_metric that is none of cosine,
\* euclidean, manhattan, dot_product raises ValueError, returns nothing and
\* leaves the store unchanged.
C6_UnknownMetric ==
    [][(last'.op = "search" /\ last'.metric \notin SupportedMetrics) =>
           /\ last'.exc = "ValueError"
           /\ last'.results = <<>>
           /\ UNCHANGED storeVars]_vars

\* a search with an unknown metric, a filter and three stored keys was refused
C6_Witness ==
    /\ last.op = "search"
    /\ last.metric = "chebyshev"
    /\ last.exc = "ValueError"
    /\ last.flt.given
    /\ Len(order) = NumDocs

(***************************************************************************)
(* C7                                                                      *)
(***************************************************************************)
SavedMetadata(key) ==
    IF key \in DOMAIN saved.metadata THEN saved.metadata[key] ELSE EmptyMap

LoadedWhatWasSaved ==
    /\ last.op = "load_from_file"
    /\ last.exc = "none"

\* C7 as stated (SpecPersist): after save_to_file and then load_from_file of the same
\* file the store holds exactly the keys that were saved, each with the same
\* vector and the same metadata mapping, whatever the store held when the load
\* began.
C7_SaveLoadRoundTrip ==
    LoadedWhatWasSaved =>
        /\ DOMAIN vectors = DOMAIN saved.vectors
        /\ \A key \in DOMAIN vectors :
               /\ vectors[key] = saved.vectors[key]
               /\ MetaOf(Store, key) = SavedMetadata(key)

\* What a saved value comes back as: None, a bool, an int, a float and a str
\* as they were, a list and a tuple as the list of what its items come back
\* as, a dict as the dict of what its values come back as, and a value of
\* any other type as the string str(value).
RECURSIVE ReadBack(_)
ReadBack(v) ==
    IF v.type \in {"NoneType", "bool", "int", "float", "str"} THEN v
    ELSE IF v.type \in {"list", "tuple"}
         THEN [type |-> "list", items |-> [i \in DOMAIN v.items |-> ReadBack(v.items[i])]]
    ELSE IF v.type = "dict"
         THEN [type |-> "dict",
               entries |-> [name \in DOMAIN v.entries |-> ReadBack(v.entries[name])]]
    ELSE [type |-> "str", s |-> v.str]

\* the value holds, at no depth, a tuple or a value of a type JSON has not
RECURSIVE OfJsonTypes(_)
OfJsonTypes(v) ==
    IF v.type \in {"NoneType", "bool", "int", "float", "str"} THEN TRUE
    ELSE IF v.type = "list" THEN \A i \in DOMAIN v.items : OfJsonTypes(v.items[i])
    ELSE IF v.type = "dict" THEN \A name \in DOMAIN v.entries : OfJsonTypes(v.entries[name])
    ELSE FALSE

\* C7 amended (SpecPersist): the keys and the vectors are those saved, and the
\* metadata of a key has the names it had, each with what its value comes
\* back as: the value itself when it is None, a bool, an int, a float or a
\* str, a list for a list and for a tuple, a dict for a dict, the items and
\* values converted likewise, and the string str(value) for a value of any
\* other type.  The metadata of a key is the mapping that was saved exactly
\* when it held no tuple and no value of another type at any depth.
C7_SaveLoadRoundTripOfJson ==
    LoadedWhatWasSaved =>
        /\ DOMAIN vectors = DOMAIN saved.vectors
        /\ \A key \in DOMAIN vectors :
               /\ vectors[key] = saved.vectors[key]
               /\ DOMAIN MetaOf(Store, key) = DOMAIN SavedMetadata(key)
               /\ \A name \in DOMAIN SavedMetadata(key) :
                      MetaOf(Store, key)[name] = ReadBack(SavedMetadata(key)[name])
               /\ (MetaOf(Store, key) = SavedMetadata(key))
                      <=> \A name \in DOMAIN SavedMetadata(key) :
                              OfJsonTypes(SavedMetadata(key)[name])

\* a load of a file saved with two keys: one with a number, a list, a
\* mapping, None, a bool and a float, which came back as saved, and one with
\* a tuple in a list, a tuple in a tuple, a tuple in a mapping and a Decimal,
\* which came back as lists and a string
C7_Witness ==
    /\ LoadedWhatWasSaved
    /\ \E key \in DOMAIN vectors :
           /\ SavedMetadata(key) = Plain
           /\ MetaOf(Store, key) = Plain
    /\ \E key \in DOMAIN vectors :
           /\ SavedMetadata(key) = Mixed
           /\ MetaOf(Store, key)["spans"] =
                  PyList(<<PyList(<<PyInt(0), PyInt(5)>>), PyInt(30)>>)
           /\ MetaOf(Store, key)["range"] = PyList(<<PyList(<<PyInt(1)>>), PyStr("x")>>)
           /\ MetaOf(Store, key)["price"] = PyStr("1.5")
           /\ MetaOf(Store, key)["video"].entries["at"] = PyList(<<PyInt(1), PyInt(2)>>)

(***************************************************************************)
(* C8                                                                      *)
(***************************************************************************)
LastPosition(texts, text) ==
    CHOOSE i \in 1..Len(texts) :
        texts[i] = text /\ \A j \in (i + 1)..Len(texts) : texts[j] # text

\* the entry of metadata_list at position i: the default is an empty mapping
EntryAt(mdl, i) ==
    IF mdl.given /\ i <= Len(mdl.items) THEN mdl.items[i] ELSE EmptyMap

\* C8 (SpecBuild): after abuild_from_list every text of the list is a key of
\* the store, its vector is the embedding at the position of its last
\* occurrence and its metadata is the entry of metadata_list at that
\* position, for every metadata_list, an omitted one included.
C8_BuildFromList ==
    last.op = "abuild_from_list" =>
        \A i \in 1..Len(last.list_of_text) :
            LET text == last.list_of_text[i]
                j == LastPosition(last.list_of_text, text)
            IN  /\ text \in DOMAIN vectors
                /\ vectors[text] = last.embeddings[j]
                /\ MetaOf(Store, text) = EntryAt(last.metadata_list, j)

(***************************************************************************)
(* C9                                                                      *)
(***************************************************************************)
\* C9 as stated (Spec): no operation deletes an entry; a key once in the store
\* is in it after every later call.
C9_NoDeletion == [][DOMAIN vectors \subseteq DOMAIN vectors']_vars

\* C9 amended (Spec): a load_from_file that succeeds replaces the keys of the
\* store by the keys of the file; after every other call every key that was
\* in the store is still in it.
C9_NoDeletionButLoad ==
    [][IF last'.op = "load_from_file" /\ last'.exc = "none"
       THEN DOMAIN vectors' = {file.vectors[i].key : i \in 1..Len(file.vectors)}
       ELSE DOMAIN vectors \subseteq DOMAIN vectors']_vars

\* a load after which a key of the store is gone, and a key of the file is in it
C9_Witness ==
    /\ last.op = "load_from_file"
    /\ last.exc = "none"
    /\ last.before \ DOMAIN vectors # {}
    /\ DOMAIN vectors # {}

(***************************************************************************)
(* C10                                                                     *)
(***************************************************************************)
\* C10 (SpecSplit): a splitter exists only with chunk_size > chunk_overlap:
\* both constructors refuse other arguments, and the step of every split,
\* chunk_size - chunk_overlap, is positive.
C10_SizeExceedsOverlap ==
    /\ pdf_splitter.exists => pdf_splitter.chunk_size > pdf_splitter.chunk_overlap
    /\ yt_splitter.exists => yt_splitter.chunk_size > yt_splitter.chunk_overlap
    /\ (last.op \in {"PDFTextSplitter", "YouTubeTextSplitter"}
            /\ last.chunk_size <= last.chunk_overlap) => last.exc # "none"
    /\ last.op \in {"split", "split_by_text"} => last.step > 0

(***************************************************************************)
(* C11                                                                     *)
(***************************************************************************)
\* the splitter the last split ran on
Splitter == IF last.op = "split" THEN pdf_splitter ELSE yt_splitter

\* a split of a text by a splitter with chunk_size > chunk_overlap
WindowSplit ==
    /\ last.op \in {"split", "split_by_text"}
    /\ Splitter.chunk_size > Splitter.chunk_overlap

\* the characters two chunks have in common; the characters of a text of the
\* model are all different
Shared(a, b) ==
    Cardinality({a.text[i] : i \in 1..Len(a.text)} \cap {b.text[i] : i \in 1..Len(b.text)})

CeilDiv(n, d) == (n + d - 1) \div d

CountAndLength ==
    /\ last.exc = "none"
    /\ Len(last.chunks) =
           CeilDiv(Len(last.text), Splitter.chunk_size - Splitter.chunk_overlap)
    /\ \A i \in 1..Len(last.chunks) : Len(last.chunks[i].text) <= Splitter.chunk_size

\* C11 as stated (SpecSplit): splitting a text of length L with chunk_size S >
\* chunk_overlap O yields ceil(L / (S - O)) chunks, each at most S long, and
\* every chunk but the final one shares exactly O characters with the next.
C11_WindowOverlapExact ==
    WindowSplit =>
        /\ CountAndLength
        /\ \A i \in 1..(Len(last.chunks) - 1) :
               Shared(last.chunks[i], last.chunks[i + 1]) = Splitter.chunk_overlap

\* C11 amended (SpecSplit): the same count and length, and every chunk but the
\* final one shares with the next the O characters the next begins with, or
\* all of the next when the next is shorter than O.
C11_WindowOverlapUpToEnd ==
    WindowSplit =>
        /\ CountAndLength
        /\ \A i \in 1..(Len(last.chunks) - 1) :
               LET a == last.chunks[i]
                   b == last.chunks[i + 1]
                   n == Min(Splitter.chunk_overlap, Len(b.text))
               IN  /\ Shared(a, b) = n
                   /\ SubSeq(a.text, Len(a.text) - n + 1, Len(a.text)) = SubSeq(b.text, 1, n)

\* a split into three chunks or more, the first two sharing
\* O >= 1 characters and the last one shorter than O
C11_Witness ==
    /\ WindowSplit
    /\ Splitter.chunk_overlap >= 1
    /\ Len(last.chunks) >= 3
    /\ Shared(last.chunks[1], last.chunks[2]) = Splitter.chunk_overlap
    /\ Len(last.chunks[Len(last.chunks)].text) < Splitter.chunk_overlap

(***************************************************************************)
(* SpecYouTube: the YouTubeTranscriptLoader under every sequence of        *)
(* extract_video_id and load_video_content on the URLs of Urls: each known *)
(* shape, with and without text before and after the id, and URLs of no    *)
(* known shape.                                                            *)
(***************************************************************************)
Urls ==
    { <<>>,
      <<"https://www.", "youtube.com/watch", "?", "v=", "abc">>,
      <<"https://", "youtu.be/", "abc", "?", "t=1">>,
      <<"youtube.com/embed/", "abc", "#", "t=1">>,
      <<"youtube.com/watch", "?", "t=1", "&", "v=", "abc", "&", "v=", "def">>,
      <<"youtube.com/watch", "?", "v=", "&", "v=", "def">>,
      <<"youtube.com/watch", "?", "v=", "abc", "youtu.be/", "def">>,
      <<"youtu.be/", "youtu.be/", "abc">>,
      <<"https://", "example.com/", "abc">>,
      <<"youtube.com/watch", "?", "v=">>,
      <<"youtube.com/watch", "v=", "abc">>,
      <<"youtube.com/watch", "?", "t=1", "\n", "&", "v=", "abc">>,
      <<"youtu.be/", "#", "abc">>,
      <<"v=", "abc">> }

Call_extract_video_id == ExtractCall(Urls)
Call_load_video_content == LoadVideoCall(Urls)

NextYouTube ==
    \/ Call_extract_video_id
    \/ Call_load_video_content

SpecYouTube == Init /\ [][NextYouTube]_vars

(***************************************************************************)
(* C12                                                                     *)
(***************************************************************************)
\* a URL has a known shape when one of the three prefixes, or watch? with a
\* later v= on the same line, is followed by a character an id may hold
IdFollows(url, i) == i <= Len(url) /\ url[i] \notin {"&", "\n", "?", "#"}

KnownShape(url) ==
    \E p \in 1..Len(url) :
        \/ url[p] \in {"youtu.be/", "youtube.com/embed/"} /\ IdFollows(url, p + 1)
        \/ /\ p + 2 <= Len(url)
           /\ url[p] = "youtube.com/watch"
           /\ url[p + 1] = "?"
           /\ \E q \in (p + 2)..Len(url) :
                  /\ url[q] = "v="
                  /\ IdFollows(url, q + 1)
                  /\ \A j \in (p + 2)..(q - 1) : url[j] # "\n"

\* C12 (SpecYouTube): for a URL of no known shape, extract_video_id and
\* load_video_content both fail with an invalid-input error (ValueError), and
\* the loader's video_id and video_info are left as they were.
C12_UnknownUrlFails ==
    [][(last'.op \in {"extract_video_id", "load_video_content"} /\ ~KnownShape(last'.url)) =>
           /\ last'.exc = "ValueError"
           /\ UNCHANGED yt_loader]_vars

\* what does hold (SpecYouTube): both calls fail on such a URL and on no
\* other, and the loader is left as it was
C12_UnknownUrlFailsSomehow ==
    [][last'.op \in {"extract_video_id", "load_video_content"} =>
           /\ last'.exc # "none" <=> ~KnownShape(last'.url)
           /\ last'.exc # "none" => UNCHANGED yt_loader]_vars

\* load_video_content failed on a loader that had loaded a video before
C12_FailedAfterLoad ==
    /\ last.op = "load_video_content"
    /\ last.exc = "Exception"
    /\ ~yt_loader.video_id.none

(***************************************************************************)
(* SpecChunks: a caller that builds the store from chunks, keeps the       *)
(* chunks it passed, writes to their metadata, and updates the metadata of *)
(* the store, also while a build is suspended; at most MaxCalls calls.     *)
(***************************************************************************)
HeldChunks == SeqsUpTo([text : Keys, metadata : {EmptyMap, CatA, CatF}], MaxTexts)

Chunks_abuild_from_chunks == Count /\ BuildChunksCall(HeldChunks, TRUE)
Chunks_resume == ResumeCall({ByText}) /\ UNCHANGED <<calls, loaderVars>>
Chunks_update_metadata == Count /\ UpdateCall(Keys, {CatA, CatF})
Chunks_write == Count /\ CallerWritesHeld({CatF})

NextChunks ==
    \/ Chunks_abuild_from_chunks
    \/ Chunks_resume
    \/ Chunks_update_metadata
    \/ Chunks_write

SpecChunks == Init /\ [][NextChunks]_vars

\* the texts of the chunks of the last abuild_from_chunks
ChunkTexts == [i \in 1..Len(last.chunks) |-> last.chunks[i].text]

\* the store holds, for the chunk at position i, the pairs of the last chunk
\* of the same text
StoredAsPassed(i) ==
    LET text == last.chunks[i].text
        j == LastPosition(ChunkTexts, text)
    IN  /\ text \in DOMAIN vectors
        /\ MetaOf(Store, text) = last.chunks[j].metadata

\* the store holds none of the caller's objects
NoneShared == \A key \in DOMAIN metadata : metadata[key] \notin CallerRefs(Store)

\* an update_metadata leaves every object the caller holds as it was
CallerKeeps ==
    last'.op = "update_metadata" =>
        \A r \in CallerRefs(Store) : r \in DOMAIN heap' /\ heap'[r] = heap[r]

\* C13 (SpecChunks): after abuild_from_chunks(chunks) every chunk's text is a
\* key whose stored metadata holds exactly the pairs of that chunk's metadata
\* (of the last chunk of that text), the stored mapping is an object of its
\* own, and no later update_metadata changes the metadata mapping of a chunk
\* the caller passed.
C13_ChunksCopied ==
    /\ [](last.op = "abuild_from_chunks" =>
              /\ \A i \in 1..Len(last.chunks) : StoredAsPassed(i)
              /\ NoneShared)
    /\ [][CallerKeeps]_vars

\* What the code does keep: the stored pairs are the chunk's whenever the
\* chunk's metadata is not empty, and an empty one leaves the key's metadata
\* as it was; the copy and the caller's objects are as claimed.
C13_ChunksCopiedWhenNonEmpty ==
    /\ [](last.op = "abuild_from_chunks" =>
              /\ \A i \in 1..Len(last.chunks) :
                     LET j == LastPosition(ChunkTexts, last.chunks[i].text)
                     IN  /\ last.chunks[i].text \in DOMAIN vectors
                         /\ last.chunks[j].metadata # EmptyMap => StoredAsPassed(i)
              /\ NoneShared)
    /\ [][CallerKeeps]_vars

\* a chunk with no metadata on a key that had some: the key keeps the old
\* pairs, and the caller still holds the chunk's empty mapping
C13_StaleChunkMetadata ==
    /\ last.op = "abuild_from_chunks"
    /\ Len(last.chunks) = 1
    /\ last.chunks[1].metadata = EmptyMap
    /\ MetaOf(Store, last.chunks[1].text) = CatA
    /\ -1 \in CallerRefs(Store) /\ heap[-1] = EmptyMap

\* an update_metadata has changed the stored copy of a chunk's metadata and
\* the chunk's own mapping is as it was passed
C13_UpdatedCopy ==
    /\ last.op = "update_metadata" /\ last.exc = "none"
    /\ -1 \in CallerRefs(Store) /\ heap[-1] = CatA
    /\ \E key \in DOMAIN metadata : heap[metadata[key]] = CatF

(***************************************************************************)
(* SpecSegments: YouTube splitters of every chunk_size up to MaxSize and    *)
(* every chunk_overlap from -1 to MaxSize (the constructor checks neither), *)
(* and split_by_segments on the transcripts of at most MaxSegments         *)
(* segments.  The segment at position i starts at second 2 * (i - 1) and   *)
(* lasts one second more than its text has characters; the transcripts of  *)
(* Swapped have two segments, the later one first.                         *)
(***************************************************************************)
MaxSegments == 3

SegmentTexts == {<<>>, <<"a">>, <<"a", "a">>, <<" ">>}

Transcript(texts) ==
    [i \in 1..Len(texts) |->
        [text |-> texts[i], start |-> 2 * (i - 1), duration |-> Len(texts[i]) + 1]]

Swapped(texts) ==
    [i \in 1..Len(texts) |->
        [text |-> texts[i], start |-> 2 * (Len(texts) - i), duration |-> Len(texts[i]) + 1]]

Transcripts ==
    {Transcript(texts) : texts \in SeqsUpTo(SegmentTexts, MaxSegments)}
    \cup {Swapped(texts) : texts \in [1..2 -> SegmentTexts]}

VideoMetadata == {[video_id |-> "v", transcript_segments |-> "segments"]}

Segments_YouTubeTextSplitter ==
    YouTubeSplitterCall(0..MaxSize, (-1)..MaxSize) /\ UNCHANGED <<calls, loaderVars>>
Call_split_by_segments ==
    SplitBySegmentsCall(Transcripts, VideoMetadata) /\ UNCHANGED <<calls, loaderVars>>

NextSegments ==
    \/ Segments_YouTubeTextSplitter
    \/ Call_split_by_segments

SpecSegments == Init /\ [][NextSegments]_vars

\* every segment of the last split_by_segments fits the size budget
SegmentsFit ==
    \A i \in 1..Len(last.transcript_segments) :
        Len(last.transcript_segments[i].text) <= last.splitter.chunk_size

\* C14 (SpecSegments): when every transcript segment is at most chunk_size
\* characters long, every chunk split_by_segments emits is at most chunk_size
\* characters long, the chunks that start with the overlap text of the
\* previous chunk included.
C14_ChunksWithinBudget ==
    (last.op = "split_by_segments" /\ SegmentsFit) =>
        \A c \in 1..Len(last.chunks) : Len(last.chunks[c].text) <= last.splitter.chunk_size

\* two segments that fit, the second one in a chunk that starts with the
\* overlap text of the first and is longer than chunk_size
C14_OverlapBreaksBudget ==
    /\ last.op = "split_by_segments" /\ SegmentsFit
    /\ Len(last.transcript_segments) = 2
    /\ Len(last.chunks) = 2
    /\ last.splitter.chunk_overlap > 0
    /\ Len(last.chunks[2].text) > last.splitter.chunk_size

\* the numbers of segments of the first c chunks, summed
Included(c) == SumSeq([j \in 1..c |-> last.chunks[j].metadata.segments_included])

\* chunk c holds the segments after those of the chunks before it, and
\* carries the start of the first and the end of the last of them
AssignedInOrder(c) ==
    LET md == last.chunks[c].metadata
        first == last.transcript_segments[Included(c - 1) + 1]
        final == last.transcript_segments[Included(c)]
    IN  /\ md.chunk_id = c - 1
        /\ md.segments_included >= 1
        /\ md.timestamp_start = first.start
        /\ md.timestamp_end = final.start + final.duration

\* every segment is in one chunk, the chunks in the order of the segments
SegmentsAssigned ==
    /\ Included(Len(last.chunks)) = Len(last.transcript_segments)
    /\ \A c \in 1..Len(last.chunks) : AssignedInOrder(c)

\* timestamp_start does not decrease from chunk to chunk
StartsAscend ==
    \A c \in 1..(Len(last.chunks) - 1) :
        last.chunks[c].metadata.timestamp_start <= last.chunks[c + 1].metadata.timestamp_start

EverySegmentAssigned == SegmentsAssigned /\ StartsAscend

\* the segments of the last split_by_segments are in order of start
InOrderOfStart ==
    \A i \in 1..(Len(last.transcript_segments) - 1) :
        last.transcript_segments[i].start <= last.transcript_segments[i + 1].start

\* some segment of the last split_by_segments has text
SomeText ==
    \E i \in 1..Len(last.transcript_segments) : last.transcript_segments[i].text # <<>>

\* C15 (SpecSegments): split_by_segments assigns every transcript segment to
\* exactly one chunk, in order: the chunk ids are 0, 1, ..., n-1, the
\* segments_included of the chunks sum to the number of segments, every
\* chunk's timestamp_start is the start of its first segment and its
\* timestamp_end the start plus the duration of its last, and timestamp_start
\* does not decrease from chunk to chunk.
C15_EverySegmentInOneChunk ==
    last.op = "split_by_segments" => EverySegmentAssigned

\* C15 as the code keeps it (SpecSegments): with a chunk_overlap that is not
\* negative and some segment with text, every segment is in exactly one
\* chunk, in order, with the ids, counts and times of the claim, and
\* timestamp_start does not decrease from chunk to chunk when the segments
\* are in order of start; a transcript whose segments all have the empty
\* text gives no chunk at all.
C15_EverySegmentWithText ==
    (last.op = "split_by_segments" /\ last.splitter.chunk_overlap >= 0) =>
        IF SomeText
        THEN SegmentsAssigned /\ (InOrderOfStart => StartsAscend)
        ELSE last.chunks = <<>>

\* a splitter of negative chunk_overlap left the last segment, of empty
\* text, in no chunk, though the first segment has text
C15_NegativeOverlapDropsSegment ==
    /\ last.op = "split_by_segments"
    /\ last.splitter.chunk_overlap < 0
    /\ SomeText
    /\ Len(last.transcript_segments) = 2
    /\ Len(last.chunks) = 1
    /\ last.chunks[1].metadata.segments_included = 1

\* two segments, the later one first, each in a chunk of its own: the
\* timestamp_start of the chunks decreases
C15_StartsDecrease ==
    /\ last.op = "split_by_segments"
    /\ last.splitter.chunk_overlap >= 0
    /\ SegmentsAssigned
    /\ ~InOrderOfStart
    /\ ~StartsAscend

\* three segments in two chunks, the first chunk holding two of them, split
\* with a chunk_overlap that is not negative
C15_Witness ==
    /\ last.op = "split_by_segments"
    /\ last.splitter.chunk_overlap >= 0
    /\ Len(last.transcript_segments) = 3
    /\ Len(last.chunks) = 2
    /\ last.chunks[1].metadata.segments_included = 2
    /\ last.chunks[2].metadata.timestamp_start = last.transcript_segments[3].start

(***************************************************************************)
(* SpecTies: inserts of NumTies keys, again and again with any             *)
(* vector of TieVecs, and searches with scores under every metric.  With   *)
(* the query <<3, 0>> the vectors <<1, 1>> and <<3, 3>>, of one direction, *)
(* have the cosines 0.7071067811865475 and 0.7071067811865476, <<0, 0>>    *)
(* has the cosine NaN, and all three have the same Manhattan distance.     *)
(* The store treats all keys alike, so one order of first insertion is     *)
(* explored: the reverse of the order of the names, which tells the order  *)
(* of insertion from the order of the keys themselves.                     *)
(***************************************************************************)
NumTies == 4
TieVecs == {<<0, 0>>, <<1, 1>>, <<3, 3>>}

\* the keys the store has, and the next new one
TieKeysNow == DOMAIN vectors \cup {KeyNames[i] : i \in {NumTies - Len(order)} \ {0}}

Ties_insert ==
    /\ InsertCall({<<k, v>> : k \in TieKeysNow, v \in TieVecs}, {EmptyMap}, FALSE)
    /\ UNCHANGED <<calls, loaderVars>>
Ties_search ==
    /\ SearchCall({<<3, 0>>}, {2, NumTies}, distance_metrics, <<>>, {TRUE})
    /\ UNCHANGED <<calls, loaderVars>>

NextTies ==
    \/ Ties_insert
    \/ Ties_search

SpecTies == Init /\ [][NextTies]_vars

\* x == y on floats
EqualScore(x, y) == ~x.nan /\ ~y.nan /\ x.num * y.den = y.num * x.den /\ x.ulps = y.ulps

\* the position of a key in the order of first insertion
PositionOf(key) == CHOOSE i \in 1..Len(order) : order[i] = key

TiesInScanOrder ==
    \A i \in 1..Len(last.results) : \A j \in (i + 1)..Len(last.results) :
        EqualScore(last.results[i].score, last.results[j].score) =>
            PositionOf(last.results[i].key) < PositionOf(last.results[j].key)

\* insert puts a new key last and leaves the order as it is for a key the
\* store has
InsertKeepsPosition ==
    last'.op = "insert" =>
        order' = IF last'.key \in DOMAIN vectors THEN order ELSE Append(order, last'.key)

\* C16 (SpecTies): under every metric, in both sort directions, two results
\* of a search with equal scores are in the order in which their keys were
\* first inserted, and inserting a key the store has does not change its
\* position.
C16_TiesInInsertionOrder ==
    /\ []((last.op = "search" /\ last.exc = "none") => TiesInScanOrder)
    /\ [][InsertKeepsPosition]_vars

\* C16 as the code keeps it (SpecTies): in a search none of whose scores is
\* NaN, under every metric, both sort directions and every interpreter, two
\* results with equal scores are in the order in which their keys were first
\* inserted, and inserting a key the store has does not change its position.
C16_TiesInInsertionOrderWhenDefined ==
    /\ []((last.op = "search" /\ last.exc = "none" /\ ScoresDefined) => TiesInScanOrder)
    /\ [][InsertKeepsPosition]_vars

\* a cosine search under CPython 3.13, one score NaN, that returned two keys
\* of equal score with the one inserted later first
C16_TieTurnedAround ==
    /\ last.op = "search" /\ last.exc = "none"
    /\ last.metric = "cosine" /\ last.interpreter = "3.13"
    /\ \E key \in DOMAIN vectors : Magnitude2(vectors[key]) = 0
    /\ \E i \in 1..Len(last.results) : \E j \in (i + 1)..Len(last.results) :
           /\ EqualScore(last.results[i].score, last.results[j].score)
           /\ PositionOf(last.results[i].key) > PositionOf(last.results[j].key)

\* a descending search of three keys, not inserted in the order of their
\* names and none scored NaN, that returned the first and the third key
\* inserted with equal scores
C16_Witness ==
    /\ last.op = "search" /\ last.exc = "none"
    /\ last.metric \in {"cosine", "dot_product"}
    /\ ScoresDefined
    /\ Len(order) = 3
    /\ order[1] # KeyNames[1]
    /\ \E i \in 1..Len(last.results) : \E j \in (i + 1)..Len(last.results) :
           /\ EqualScore(last.results[i].score, last.results[j].score)
           /\ last.results[i].key = order[1]
           /\ last.results[j].key = order[3]

\* the metadata of key k is not the dict object the updated key holds
OwnObject(k, key) ==
    k \notin DOMAIN metadata \/ key \notin DOMAIN metadata \/ metadata[k] # metadata[key]

\* C17 (SpecUpdate): update_metadata(key, new) changes nothing but the
\* metadata of that key: the vectors of all keys and the metadata of every
\* other key are after the call what they were before it, also when one
\* metadata mapping was passed to insert for several keys.
C17_UpdateTouchesOneKey ==
    [][last'.op = "update_metadata" =>
          /\ vectors' = vectors
          /\ order' = order
          /\ \A k \in DOMAIN vectors \ {last'.key} :
                 MetaOf(Store, k)' = MetaOf(Store, k)]_vars

\* What the code keeps: the vectors, and the metadata of the keys that do not
\* hold the dict object of the updated key.
C17_UpdateTouchesOneObject ==
    [][last'.op = "update_metadata" =>
          /\ vectors' = vectors
          /\ order' = order
          /\ \A k \in DOMAIN vectors \ {last'.key} :
                 OwnObject(k, last'.key) => MetaOf(Store, k)' = MetaOf(Store, k)]_vars

\* an update of one key shows in the metadata of another key, which was
\* inserted with the same mapping
C17_SharedMetadataUpdated ==
    /\ last.op = "update_metadata" /\ last.exc = "none"
    /\ DOMAIN last.new # {}
    /\ \E k \in DOMAIN metadata \ {last.key} :
           /\ last.key \in DOMAIN metadata
           /\ metadata[k] = metadata[last.key]
           /\ \A name \in DOMAIN last.new : MetaOf(Store, k)[name] = last.new[name]

\* C18 (Spec): in every state reached by insert, update_metadata,
\* abuild_from_list, abuild_from_chunks, search, retrieve_from_key,
\* save_to_file and load_from_file of the saved file, every key of the
\* metadata mapping is a key of the vector mapping, and get_statistics
\* reports total_metadata_entries <= total_documents.
C18_MetadataKeysAreVectorKeys ==
    /\ DOMAIN metadata \subseteq DOMAIN vectors
    /\ get_statistics(Store).total_metadata_entries <= get_statistics(Store).total_documents

\* a saved file was loaded into a store of two keys, one with metadata and one
\* without
C18_Witness ==
    /\ last.op = "load_from_file" /\ last.exc = "none"
    /\ get_statistics(Store).total_documents = 2
    /\ get_statistics(Store).total_metadata_entries = 1

(***************************************************************************)
(* SpecPDF: loaders of the paths of PdfPaths, with either library          *)
(* preferred and present or not, and loads through load_documents,         *)
(* load_documents_with_metadata, load, load_file and load_directory; at    *)
(* most MaxCalls calls.                                                    *)
(***************************************************************************)
PdfPaths ==
    {<<"docs/">>, <<"docs/", "old/">>, <<"bad/">>, <<"empty/">>,
     <<"docs/", "a", ".pdf">>, <<"docs/", "b", ".PDF">>, <<"docs/", "notes", ".txt">>,
     <<"bad/", "broken", ".pdf">>, <<"missing", ".pdf">>}

New_PDFFileLoader ==
    /\ calls < MaxCalls /\ calls' = calls + 1
    /\ PDFLoaderCall(PdfPaths, BOOLEAN \X BOOLEAN)
Call_load_documents ==
    /\ calls < MaxCalls /\ calls' = calls + 1
    /\ LoadDocumentsCall
Call_load_documents_with_metadata ==
    /\ calls < MaxCalls /\ calls' = calls + 1
    /\ LoadDocumentsWithMetadataCall

Call_load ==
    /\ calls < MaxCalls /\ calls' = calls + 1
    /\ LoaderLoadCall
Call_load_file ==
    /\ calls < MaxCalls /\ calls' = calls + 1
    /\ LoadFileCall
Call_load_directory ==
    /\ calls < MaxCalls /\ calls' = calls + 1
    /\ LoadDirectoryCall

NextPDF ==
    \/ New_PDFFileLoader
    \/ Call_load_documents
    \/ Call_load_documents_with_metadata
    \/ Call_load
    \/ Call_load_file
    \/ Call_load_directory

SpecPDF == InitPDF /\ [][NextPDF]_vars

\* the PDF files found at a path
PdfFilesAt(path) ==
    IF isdir(path) THEN SelectSeq(Walk(path, listing), EndsWithPdf)
    ELSE IF isfile(path) /\ EndsWithPdf(path) THEN <<path>> ELSE <<>>

Loaded == last.op \in {"load_documents", "load_documents_with_metadata"} /\ last.exc = "none"

\* the documents returned are one for each PDF file at the path, and the
\* metadata returned with them are theirs, position by position
OnePerFile ==
    /\ Len(last.documents) = Len(PdfFilesAt(last.path))
    /\ \A i \in 1..Len(PdfFilesAt(last.path)) :
           Cardinality({j \in 1..Len(last.documents) :
                           last.documents[j].of = PdfFilesAt(last.path)[i]}) = 1
    /\ last.op = "load_documents_with_metadata" =>
           /\ Len(last.metadata) = Len(last.documents)
           /\ \A j \in 1..Len(last.documents) :
                  last.metadata[j].source = last.documents[j].of

EqualLengths == pdf_loader.exists => Len(pdf_loader.documents) = Len(pdf_loader.metadata)

\* C19 (SpecPDF): every load_documents and load_documents_with_metadata on a
\* PDFFileLoader, however many loads came before it on that loader, returns
\* exactly one document, and one metadata entry at the same position, for
\* each PDF file found at the path, no file twice; the documents and the
\* metadata lists always have equal length.
C19_OneDocumentPerFile ==
    /\ EqualLengths
    /\ Loaded => OnePerFile

\* What the code keeps: the lists have equal length, and the load of a loader
\* that holds no document yet returns one document for each PDF file.
C19_OneDocumentPerFileAtFirst ==
    /\ []EqualLengths
    /\ [][(Loaded' /\ pdf_loader.exists /\ pdf_loader.documents = <<>>) => OnePerFile']_vars

\* a second load of a directory of three PDF files returned six documents
C19_LoadedTwice ==
    /\ Loaded
    /\ Len(PdfFilesAt(last.path)) = 3
    /\ Len(last.documents) = 6
    /\ last.documents[4] = last.documents[1]

====
